---- MODULE Spec2Model ----
(***************************************************************************)
(* A model of the factorflow loopy belief propagation engine:              *)
(* MessageChunk, GraphEdgeInfo, Nodes / VarNodes / PottsNodes / CatNodes   *)
(* and BpGraph.                                                            *)
(*                                                                         *)
(* Conventions.                                                            *)
(*  - Python floats are modelled by exact rationals <<num, den>>.          *)
(*  - An ndarray is a record [shape, v]: v is the array's contents in      *)
(*    logical row-major order, indexed from 0.                             *)
(*  - A value in the log domain is kept as <<"ln", x>>, standing for       *)
(*    log(x); adding logs multiplies the arguments, exp() takes x back.    *)
(*  - An uncaught exception ends the program: exc names it, and no         *)
(*    operation runs once exc # "none".  What the raising call had already *)
(*    written stays written.                                               *)
(*  - Every method is an operator from a world w (a record of all the      *)
(*    objects) to the world after the call; the actions apply them.        *)
(***************************************************************************)
EXTENDS Integers, Sequences, FiniteSets, TLC

VARIABLES
    chunks,     \* the MessageChunk objects, by <<group, edge type>>
    grps,       \* the Nodes objects (VarNodes, PottsNodes, CatNodes), by name
    edge_info,  \* the GraphEdgeInfo object of the BpGraph
    graph,      \* the BpGraph object's own fields
    frame,      \* the running do_message_passing call: its position and locals
    exc,        \* "none", or the exception that ended the program
    hist        \* observer: the last call and its result, accepted edges, call counts

vars == <<chunks, grps, edge_info, graph, frame, exc, hist>>

\* ------------------------------------------------------------------ bounds

\* Upper bound on the nodes a group is given by create_nodes.
MaxNodes == 2
\* Upper bound on the add_edge calls that are accepted.
MaxEdges == 2
\* Upper bound on the add_unaries / condition_on calls.
MaxUnaryCalls == 2
\* Upper bound on the do_message_passing calls.
MaxRuns == 2
\* MessageChunk._MSG_MIN_VAL is 1 / MsgClampInv and _MSG_MAX_VAL is 1 - 1 / MsgClampInv
\* (the source uses 1e-8; 32-bit integer arithmetic keeps the model's value small).
MsgClampInv == 100
\* add_unaries clips to [1 / UnaryClipInv, 1 - 1 / UnaryClipInv] (the source uses 1e-12).
UnaryClipInv == 20
\* Length of the buffers a MessageChunk and the edge table start with (the source
\* uses 10000 and 1000): small, so that growing them happens.
NodeBuffSz == 2
NodeEdgeBuff == 2

\* ------------------------------------------------------------- rationals

Abs(x) == IF x < 0 THEN -x ELSE x

RECURSIVE GCD(_, _)
GCD(a, b) == IF b = 0 THEN a ELSE GCD(b, a % b)

\* The rational n/d (d > 0) in lowest terms.
Rat(n, d) == LET g == GCD(Abs(n), d) IN <<n \div g, d \div g>>

Zero == <<0, 1>>
One  == <<1, 1>>

\* The operations reduce before they multiply, to keep the intermediate
\* integers small.
LCM(a, b) == (a \div GCD(a, b)) * b
RAdd(a, b) == LET l == LCM(a[2], b[2])
              IN  Rat(a[1] * (l \div a[2]) + b[1] * (l \div b[2]), l)
RNeg(a)    == <<-a[1], a[2]>>
RSub(a, b) == RAdd(a, RNeg(b))
RMul(a, b) == LET g1 == GCD(Abs(a[1]), b[2])
                  g2 == GCD(Abs(b[1]), a[2])
              IN  IF a[1] = 0 \/ b[1] = 0 THEN <<0, 1>>
                  ELSE <<(a[1] \div g1) * (b[1] \div g2), (a[2] \div g2) * (b[2] \div g1)>>
RDiv(a, b) == IF b[1] > 0 THEN RMul(a, <<b[2], b[1]>>) ELSE RMul(a, <<-b[2], -b[1]>>)
RLe(a, b)  == LET l == LCM(a[2], b[2]) IN a[1] * (l \div a[2]) <= b[1] * (l \div b[2])
RLt(a, b)  == LET l == LCM(a[2], b[2]) IN a[1] * (l \div a[2]) < b[1] * (l \div b[2])
RMax(a, b) == IF RLe(a, b) THEN b ELSE a
RAbs(a)    == <<Abs(a[1]), a[2]>>

\* Sum, product and maximum of f over the indices 0..n-1.
RECURSIVE RSum(_, _)
RSum(f, n) == IF n = 0 THEN Zero ELSE RAdd(RSum(f, n - 1), f[n - 1])
RECURSIVE RProd(_, _)
RProd(f, n) == IF n = 0 THEN One ELSE RMul(RProd(f, n - 1), f[n - 1])
RECURSIVE RMaxOf(_, _)
RMaxOf(f, n) == IF n = 1 THEN f[0] ELSE RMax(RMaxOf(f, n - 1), f[n - 1])

\* ----------------------------------------------------------------- arrays

Size(shape) == IF Len(shape) = 2 THEN shape[1] * shape[2]
               ELSE shape[1] * shape[2] * shape[3]

\* The array of the given shape whose entry at flat index i is F(i).
Arr(shape, F(_)) == [shape |-> shape, v |-> [i \in 0 .. Size(shape) - 1 |-> F(i)]]

\* Flat index of [d, s, n] in a 3-D array, of [r, s] in a 2-D array.
Ix3(shape, d, s, n) == (d * shape[2] + s) * shape[3] + n
Ix2(shape, r, s) == r * shape[2] + s
At3(a, d, s, n) == a.v[Ix3(a.shape, d, s, n)]
At2(a, r, s) == a.v[Ix2(a.shape, r, s)]

\* The 3-D array of the given shape with entry F(d, s, n) at [d, s, n].
Arr3(shape, F(_, _, _)) ==
    Arr(shape, LAMBDA i : F(i \div (shape[2] * shape[3]),
                            (i \div shape[3]) % shape[2],
                            i % shape[3]))

\* np.sum(a, axis=1, keepdims=True)[d, 0, n]
SumStates(a, d, n) == RSum([s \in 0 .. a.shape[2] - 1 |-> At3(a, d, s, n)], a.shape[2])

\* a / np.sum(a, axis=1, keepdims=True)
NormalizeStates(a) ==
    Arr3(a.shape, LAMBDA d, s, n : RDiv(At3(a, d, s, n), SumStates(a, d, n)))

\* The length two broadcast axes of lengths a and b give, -1 when they do not
\* broadcast; the index into an axis of length len for the broadcast index i.
Bc(a, b) == IF a = b THEN a ELSE IF a = 1 THEN b ELSE IF b = 1 THEN a ELSE -1
BIx(i, len) == IF len = 1 THEN 0 ELSE i

\* ------------------------------------------------------------- exceptions

Ok(w) == w.exc = "none"
Raise(w, e) == [w EXCEPT !.exc = e]

\* Op applied to the value of v, v evaluated once: a call's result is bound
\* before the next call uses it.
Bind(v, Op(_)) == CHOOSE r \in {Op(x) : x \in {v}} : TRUE

\* ----------------------------------------------------------- MessageChunk

MSG_MIN_VAL == <<1, MsgClampInv>>
MSG_MAX_VAL == <<MsgClampInv - 1, MsgClampInv>>

\* np.zeros([n], dtype='int')
ZerosInt(n) == [i \in 0 .. n - 1 |-> 0]
FnLen(f) == Cardinality(DOMAIN f)
\* np.concatenate((f, g), axis=0) of two 1-D arrays or row lists
Concat(f, g) == [i \in 0 .. FnLen(f) + FnLen(g) - 1 |->
                    IF i < FnLen(f) THEN f[i] ELSE g[i - FnLen(f)]]

\* MessageChunk.__init__
NewMessageChunk(num_states) ==
    [ num_states      |-> num_states,
      num_entries     |-> 0,
      max_degree      |-> 0,
      msgs_init_strat |-> "random",
      msgs_init_range |-> <<1, 5>>,
      msgs_init_min   |-> <<2, 5>>,
      pad_msg_val     |-> <<>>,
      msgs_in         |-> [shape |-> <<0, 0, 0>>, v |-> <<>>],
      degree          |-> ZerosInt(NodeBuffSz),
      is_rolled       |-> TRUE,
      finalized       |-> FALSE ]

\* The degree buffer doubled until it holds n entries (the while loop of create_entries).
RECURSIVE GrowDegree(_, _)
GrowDegree(degree, n) ==
    IF FnLen(degree) < n THEN GrowDegree(Concat(degree, ZerosInt(FnLen(degree))), n)
    ELSE degree

\* MessageChunk.create_entries: the chunk after the call (the ids handed out are
\* num_entries .. num_entries + k - 1 of the chunk before).
MessageChunk_create_entries(w, c, k) ==
    IF w.chunks[c].finalized THEN Raise(w, "AssertionError")
    ELSE [w EXCEPT !.chunks[c].num_entries = @ + k,
                   !.chunks[c].degree = GrowDegree(@, w.chunks[c].num_entries + k)]

\* MessageChunk.set_num_states without the assignment.
MessageChunk_set_num_states_NoAssign(w, c, num_states) ==
    IF ~(num_states > 0) \/ w.chunks[c].finalized THEN Raise(w, "AssertionError")
    ELSE w

\* MessageChunk.set_num_states
MessageChunk_set_num_states(w, c, num_states) ==
    IF ~(num_states > 0) \/ w.chunks[c].finalized THEN Raise(w, "AssertionError")
    ELSE [w EXCEPT !.chunks[c].num_states = num_states]

\* One draw of np.random.random_sample: the i-th value of the stream the seed fixes,
\* 0 or 1/2 by the i-th bit of the seed (the bits repeat with period 8).
RECURSIVE Pow2(_)
Pow2(i) == IF i = 0 THEN 1 ELSE 2 * Pow2(i - 1)
RandomSample(seed, i) == <<(seed \div Pow2(i % 8)) % 2, 2>>

\* MessageChunk.__alloc_message
AllocMessage(ch, seed, off) ==
    LET sz_msg == <<ch.max_degree, ch.num_states, ch.num_entries>>
        msg_range == IF ch.msgs_init_strat = "uniform" THEN Zero ELSE ch.msgs_init_range
        msg_min   == IF ch.msgs_init_strat = "uniform" THEN One ELSE ch.msgs_init_min
    IN  Arr(sz_msg, LAMBDA i : RAdd(msg_min, RMul(msg_range, RandomSample(seed, off + i))))

\* The fill with the slice degree[i] + 1: in place of degree[i]:.
PadFill_AboveDegree(msgs, degree, pad) ==
    Arr3(msgs.shape, LAMBDA d, s, n : IF d > degree[n] THEN pad[s + 1]
                                       ELSE At3(msgs, d, s, n))

\* The fill of the padded slots in MessageChunk.finalize:
\* msgs_in[degree[i]:, j, i] = pad_msg_val[j] for every node i and state j.
PadFill(msgs, degree, pad) ==
    Arr3(msgs.shape, LAMBDA d, s, n : IF d >= degree[n] THEN pad[s + 1]
                                       ELSE At3(msgs, d, s, n))

\* The number of values __alloc_message draws for a chunk.
DrawsOf(ch) == ch.max_degree * ch.num_states * ch.num_entries

\* MessageChunk.finalize; the chunk's messages are the draws off, off + 1, .. of
\* the stream.
MessageChunk_finalize(w, c, seed, off) ==
    LET ch == w.chunks[c] IN
    IF ch.finalized \/ ~(ch.num_entries > 0) THEN Raise(w, "AssertionError")
    ELSE
    LET degree == [i \in 0 .. ch.num_entries - 1 |-> ch.degree[i]] IN
    Bind([w EXCEPT !.chunks[c].degree = degree,
                   !.chunks[c].msgs_in = AllocMessage(ch, seed, off)], LAMBDA w1 :
        IF ch.pad_msg_val = <<>> /\ ch.num_states = 0
        THEN Raise(w1, "ZeroDivisionError")
        \* self.pad_msg_val * np.ones(self.num_states) of an array pad_msg_val
        ELSE IF ch.pad_msg_val # <<>> /\ Bc(Len(ch.pad_msg_val), ch.num_states) = -1
        THEN Raise(w1, "ValueError")
        ELSE
        LET pad == IF ch.pad_msg_val = <<>>
                   THEN [j \in 1 .. ch.num_states |-> <<1, ch.num_states>>]
                   ELSE [j \in 1 .. ch.num_states |->
                            ch.pad_msg_val[IF Len(ch.pad_msg_val) = 1 THEN 1 ELSE j]]
            pad_msg_val == IF ch.pad_msg_val = <<>> THEN <<<<1, ch.num_states>>>>
                           ELSE ch.pad_msg_val
        IN  [w1 EXCEPT !.chunks[c].pad_msg_val = pad_msg_val,
                       !.chunks[c].msgs_in = PadFill(@, degree, pad),
                       !.chunks[c].finalized = TRUE])

\* Whether some entry of msg is above _MSG_MAX_VAL / below _MSG_MIN_VAL.
AnyAbove(msg) == \E i \in DOMAIN msg.v : RLt(MSG_MAX_VAL, msg.v[i])
AnyBelow(msg) == \E i \in DOMAIN msg.v : RLt(msg.v[i], MSG_MIN_VAL)

\* MessageChunk.clamp_messages
MessageChunk_clamp_messages(msg) ==
    LET hi == [msg EXCEPT !.v = [i \in DOMAIN msg.v |->
                    IF RLt(MSG_MAX_VAL, msg.v[i]) THEN MSG_MAX_VAL ELSE msg.v[i]]]
    IN  Bind(hi, LAMBDA h :
            Bind([h EXCEPT !.v = [i \in DOMAIN h.v |->
                        IF RLt(h.v[i], MSG_MIN_VAL) THEN MSG_MIN_VAL ELSE h.v[i]]],
                 LAMBDA lo : IF AnyAbove(msg) \/ AnyBelow(h) THEN NormalizeStates(lo) ELSE msg))

\* The reshape without the swap of the axes.
do_prepare_msgs_for_distribution_NoSwap(msgs) ==
    [shape |-> <<msgs.shape[1] * msgs.shape[3], msgs.shape[2]>>, v |-> msgs.v]

\* MessageChunk.do_prepare_msgs_for_distribution: np.swapaxes(msgs, 1, 2), then
\* np.reshape to [shape[0] * shape[2], shape[1]].
do_prepare_msgs_for_distribution(msgs) ==
    LET D == msgs.shape[1]
        S == msgs.shape[2]
        N == msgs.shape[3]
    IN  Arr(<<D * N, S>>, LAMBDA i : At3(msgs, (i \div S) \div N, i % S, (i \div S) % N))

\* MessageChunk.prepare_msgs_for_distribution
MessageChunk_prepare_msgs_for_distribution(w, c) ==
    LET ch == w.chunks[c] IN
    IF ~ch.finalized THEN Raise(w, "AssertionError")
    ELSE IF ch.is_rolled
         THEN [w EXCEPT !.chunks[c].msgs_in = do_prepare_msgs_for_distribution(@),
                        !.chunks[c].is_rolled = FALSE]
         ELSE w

\* The np.reshape to [max_degree, num_entries, num_states] and np.swapaxes(.., 1, 2)
\* of MessageChunk.prepare_msgs_for_computation.
RollMsgs(msgs, D, N, S) ==
    Arr3(<<D, S, N>>, LAMBDA d, s, n : msgs.v[(d * N + n) * S + s])

\* MessageChunk.prepare_msgs_for_computation
MessageChunk_prepare_msgs_for_computation(w, c) ==
    LET ch == w.chunks[c] IN
    IF ~ch.finalized THEN Raise(w, "AssertionError")
    ELSE IF ~ch.is_rolled
         THEN IF Size(ch.msgs_in.shape) # ch.max_degree * ch.num_entries * ch.num_states
              THEN Raise(w, "ValueError")
              ELSE [w EXCEPT !.chunks[c].msgs_in =
                                 RollMsgs(@, ch.max_degree, ch.num_entries, ch.num_states),
                             !.chunks[c].is_rolled = TRUE]
         ELSE w

\* ---------------------------------------------------------- GraphEdgeInfo

\* The groups of the program: two VarNodes objects and one factor group.
VarGroups == {"V", "W"}
Groups == {"V", "W", "F"}

\* EDGE_TYPES of a class; a VarNodes object keeps its one chunk under 'vars'.
EDGE_TYPES(cls) ==
    CASE cls = "VarNodes"   -> {"vars"}
      [] cls = "PottsNodes" -> {"default"}
      [] cls = "CatNodes"   -> {"input", "output"}
      [] cls = "NoisyOrNodes" -> {"input", "output"}

\* The order in which a dict of the program is iterated: fixed for a given set
\* of keys; the model takes this one.
RoleOrder == <<"vars", "default", "input", "output">>
KeyOrder == << <<"V", "F", "default">>, <<"V", "F", "input">>, <<"V", "F", "output">>,
               <<"W", "F", "default">>, <<"W", "F", "input">>, <<"W", "F", "output">> >>
InOrder(order, S) == SelectSeq(order, LAMBDA k : k \in S)

\* The key (c_msgs_chunk, o_msgs_chunk_edge) of a pair of chunks, and its two chunks.
Key(vc, fc) == <<vc[1], fc[1], fc[2]>>
Chunk0(key) == <<key[1], "vars">>
Chunk1(key) == <<key[2], key[3]>>

\* GraphEdgeInfo.__init__
NewGraphEdgeInfo == [edge_hash |-> <<>>, edge_hash_count |-> <<>>, to_chunks |-> <<>>]

\* d[k] = v on a dict d (a function whose domain is its key set).
DictSet(d, k, v) == [x \in DOMAIN d \cup {k} |-> IF x = k THEN v ELSE d[x]]
\* del d[k]
DictDel(d, k) == [x \in DOMAIN d \ {k} |-> d[x]]

\* -1 * np.ones((n, 4), dtype='int') and -1 * np.ones_like(rows)
MinusOnes(n, cols) == [i \in 0 .. n - 1 |-> [j \in 1 .. cols |-> -1]]

\* GraphEdgeInfo.add_edge
GraphEdgeInfo_add_edge(w, vc, c_id, fc, o_id) ==
    LET c_nodes_loc == w.chunks[vc].degree[c_id]
        o_msgs_edge_loc == w.chunks[fc].degree[o_id]
        key == Key(vc, fc)
        entry == <<c_id, c_nodes_loc, o_id, o_msgs_edge_loc>>
        e0 == w.edge_info
    IN
    Bind(IF key \notin DOMAIN e0.edge_hash
         THEN [e0 EXCEPT !.edge_hash_count = DictSet(@, key, 0),
                         !.edge_hash = DictSet(@, key, MinusOnes(NodeEdgeBuff, 4))]
         ELSE e0, LAMBDA e1 :
    LET row_use == e1.edge_hash_count[key]
        rows == e1.edge_hash[key]
    IN
    Bind(IF row_use > FnLen(rows) - 1
         THEN [e1 EXCEPT !.edge_hash[key] =
                            Concat(rows, MinusOnes(FnLen(rows), Len(rows[0])))]
         ELSE e1, LAMBDA e2 :
    IF Len(e2.edge_hash[key][row_use]) # 4
    THEN Raise([w EXCEPT !.edge_info = e2], "ValueError")
    ELSE [w EXCEPT !.edge_info = [e2 EXCEPT !.edge_hash[key][row_use] = entry,
                                            !.edge_hash_count[key] = @ + 1]]))

\* get_msg_chunk_dests with the source and destination columns exchanged.
GraphEdgeInfo_get_msg_chunk_dests_Exchanged(e, msg_chunk) ==
    IF msg_chunk \notin DOMAIN e.to_chunks THEN <<>>
    ELSE [i \in 1 .. Len(e.to_chunks[msg_chunk]) |->
            LET chunk_tuple == e.to_chunks[msg_chunk][i] IN
            IF msg_chunk = Chunk0(chunk_tuple)
            THEN [dest |-> Chunk1(chunk_tuple), chunk_entries |-> e.edge_hash[chunk_tuple],
                  to_index |-> <<2, 1>>]
            ELSE [dest |-> Chunk0(chunk_tuple), chunk_entries |-> e.edge_hash[chunk_tuple],
                  to_index |-> <<1, 2>>]]

\* GraphEdgeInfo.get_msg_chunk_dests: the peers of msg_chunk in the order they are
\* visited, each with its rows and (source column, destination column).
GraphEdgeInfo_get_msg_chunk_dests(e, msg_chunk) ==
    IF msg_chunk \notin DOMAIN e.to_chunks THEN <<>>
    ELSE [i \in 1 .. Len(e.to_chunks[msg_chunk]) |->
            LET chunk_tuple == e.to_chunks[msg_chunk][i] IN
            IF msg_chunk = Chunk0(chunk_tuple)
            THEN [dest |-> Chunk1(chunk_tuple), chunk_entries |-> e.edge_hash[chunk_tuple],
                  to_index |-> <<1, 2>>]
            ELSE [dest |-> Chunk0(chunk_tuple), chunk_entries |-> e.edge_hash[chunk_tuple],
                  to_index |-> <<2, 1>>]]

\* The second loop of GraphEdgeInfo.finalize over the keys left to visit.
RECURSIVE EdgeFinalizeKeys(_, _)
EdgeFinalizeKeys(w, keys) ==
    IF keys = <<>> \/ ~Ok(w) THEN w
    ELSE
    LET key == Head(keys)
        tmp == w.edge_info.edge_hash[key]
        n0 == w.chunks[Chunk0(key)].num_entries
        n1 == w.chunks[Chunk1(key)].num_entries
    IN  IF FnLen(tmp) > 0 /\ Len(tmp[0]) < 4
        THEN Raise(w, "IndexError")
        ELSE
        LET new_idx == [i \in DOMAIN tmp |->
                            <<tmp[i][2] * n0 + tmp[i][1], tmp[i][4] * n1 + tmp[i][3]>>]
            tc0 == w.edge_info.to_chunks
            tc1 == DictSet(tc0, Chunk0(key),
                           IF Chunk0(key) \in DOMAIN tc0 THEN Append(tc0[Chunk0(key)], key)
                           ELSE <<key>>)
        IN  Bind(tc1, LAMBDA t1 :
              Bind([w EXCEPT !.edge_info.edge_hash[key] = new_idx,
                             !.edge_info.to_chunks =
                                DictSet(t1, Chunk1(key),
                                        IF Chunk1(key) \in DOMAIN t1
                                        THEN Append(t1[Chunk1(key)], key)
                                        ELSE <<key>>)],
                   LAMBDA w1 : EdgeFinalizeKeys(w1, Tail(keys))))

\* GraphEdgeInfo.finalize without the removal of the buffered rows.
GraphEdgeInfo_finalize_NoTrim(w) ==
    EdgeFinalizeKeys(w, InOrder(KeyOrder, DOMAIN w.edge_info.edge_hash))

\* GraphEdgeInfo.finalize
GraphEdgeInfo_finalize(w) ==
    LET e == w.edge_info
        trimmed == [key \in DOMAIN e.edge_hash |->
                        [i \in 0 .. e.edge_hash_count[key] - 1 |-> e.edge_hash[key][i]]]
    IN  Bind([w EXCEPT !.edge_info.edge_hash = trimmed],
             LAMBDA w1 : EdgeFinalizeKeys(w1, InOrder(KeyOrder, DOMAIN e.edge_hash)))

\* ------------------------------------------------------------------ Nodes

\* The chunks of a group, in the order message_chunks.keys() gives them.
ChunksOf(w, g) == [i \in 1 .. Len(InOrder(RoleOrder, w.grps[g].roles)) |->
                      <<g, InOrder(RoleOrder, w.grps[g].roles)[i]>>]

\* Nodes.__init__ with the fields its subclass adds (the chunks are in chunks):
\* num_states is VarNodes.num_states, 0 for a factor class, which has none.
NewNodes(cls, nodes_params, num_states) ==
    [cls |-> cls, roles |-> EDGE_TYPES(cls), nodes_params |-> nodes_params,
     finalized |-> FALSE, bel |-> <<>>, num_states |-> num_states]

RECURSIVE CreateEntriesAll(_, _, _)
CreateEntriesAll(w, cs, k) ==
    IF cs = <<>> \/ ~Ok(w) THEN w
    ELSE Bind(MessageChunk_create_entries(w, Head(cs), k),
              LAMBDA w1 : CreateEntriesAll(w1, Tail(cs), k))

\* create_nodes with the loop left after the first chunk.
Nodes_create_nodes_FirstChunk(w, g, num_to_create) ==
    IF w.grps[g].finalized THEN Raise(w, "AssertionError")
    ELSE CreateEntriesAll(w, <<ChunksOf(w, g)[1]>>, num_to_create)

\* Nodes.create_nodes
Nodes_create_nodes(w, g, num_to_create) ==
    IF w.grps[g].finalized THEN Raise(w, "AssertionError")
    ELSE CreateEntriesAll(w, ChunksOf(w, g), num_to_create)

\* The list Nodes.create_nodes returns: node_ids of the last chunk of the loop,
\* range(num_entries, num_entries + num_to_create) of that chunk before the call.
Nodes_create_nodes_ids(w, g, num_to_create) ==
    LET last == ChunksOf(w, g)[Len(ChunksOf(w, g))]
    IN  [i \in 1 .. num_to_create |-> w.chunks[last].num_entries + i - 1]

RECURSIVE FinalizeAll(_, _, _, _)
FinalizeAll(w, cs, seed, off) ==
    IF cs = <<>> \/ ~Ok(w) THEN w
    ELSE Bind(MessageChunk_finalize(w, Head(cs), seed, off),
              LAMBDA w1 : FinalizeAll(w1, Tail(cs), seed, off + DrawsOf(w.chunks[Head(cs)])))

\* Nodes.finalize
Nodes_finalize(w, g, seed, off) ==
    IF w.grps[g].finalized THEN Raise(w, "AssertionError")
    ELSE Bind(FinalizeAll(w, ChunksOf(w, g), seed, off),
              LAMBDA w1 : IF Ok(w1) THEN [w1 EXCEPT !.grps[g].finalized = TRUE] ELSE w1)

RECURSIVE RollAll(_, _)
RollAll(w, cs) ==
    IF cs = <<>> \/ ~Ok(w) THEN w
    ELSE Bind(MessageChunk_prepare_msgs_for_computation(w, Head(cs)),
              LAMBDA w1 : RollAll(w1, Tail(cs)))

\* Nodes.prepare_msgs_for_computation
Nodes_prepare_msgs_for_computation(w, g) == RollAll(w, ChunksOf(w, g))

\* --------------------------------------------------------------- VarNodes

\* np.log and np.exp, entry by entry.
Ln(x) == <<"ln", x>>
Exp(l) == l[2]
LnAdd(a, b) == Ln(RMul(a[2], b[2]))
LnSub(a, b) == Ln(RDiv(a[2], b[2]))
NpLog(a) == [a EXCEPT !.v = [i \in DOMAIN a.v |-> Ln(a.v[i])]]

\* np.clip(x, 1e-12, 1 - 1e-12)
UnaryClip(x) == IF RLt(x, <<1, UnaryClipInv>>) THEN <<1, UnaryClipInv>>
                ELSE IF RLt(<<UnaryClipInv - 1, UnaryClipInv>>, x)
                     THEN <<UnaryClipInv - 1, UnaryClipInv>>
                     ELSE x

\* The unary_vals of add_unaries as it reaches the merge: rows reshaped to
\* [1, num_states, len(rows)], normalised, clipped and normalised again.
PrepareUnaries(rows) ==
    LET K == Len(rows)
        S == Len(rows[1])
    IN  Bind(NormalizeStates(Arr3(<<1, S, K>>, LAMBDA d, s, n : rows[n + 1][s + 1])),
             LAMBDA nrm :
                Bind([nrm EXCEPT !.v = [i \in DOMAIN nrm.v |-> UnaryClip(nrm.v[i])]],
                     LAMBDA clip : NormalizeStates(clip)))

\* np.concatenate((a, b), axis=2) of two arrays of shape [1, S, *]
ConcatNodes(a, b) ==
    Arr3(<<1, a.shape[2], a.shape[3] + b.shape[3]>>,
         LAMBDA d, s, n : IF n < a.shape[3] THEN At3(a, 0, s, n)
                          ELSE At3(b, 0, s, n - a.shape[3]))

Range(f) == {f[i] : i \in DOMAIN f}
\* np.where(idx == i)[0][0]
FirstPos(idx, i) == CHOOSE p \in DOMAIN idx : idx[p] = i /\ \A q \in DOMAIN idx : idx[q] = i => p <= q

\* VarNodes.__merge_duplicate_unaries.  node_ids is the 1-D array of ids and
\* unary_vals the array of shape [1, S, len(node_ids)]; the result is the world
\* after the merge with the (node_ids, unary_vals) the method returns.
VarNodes_merge_duplicate_unaries(w, g, node_ids, unary_vals) ==
    LET np == w.grps[g].nodes_params
        K == FnLen(node_ids)
        fail(w1, e) == [w |-> Raise(w1, e), node_ids |-> node_ids, unary_vals |-> unary_vals]
    IN
    \* node_id in self.nodes_params['unary_idx']
    IF "unary_idx" \notin DOMAIN np THEN fail(w, "KeyError")
    ELSE
    LET dup_pos == {i \in DOMAIN node_ids : node_ids[i] \in Range(np["unary_idx"])}
        K0 == np["log_unary"].shape[3]
    IN
    \* unary_vals[[i], :, :] indexes the axis of length 1 with the position i
    IF \E i \in dup_pos : i # 0 THEN fail(w, "IndexError")
    \* dups is still the list [] when no id is a duplicate: dups.size
    ELSE IF dup_pos = {} THEN fail(w, "AttributeError")
    \* log_unary[idx, :] and log_dups_val[int(i), :], i the duplicate id, both
    \* index an axis of length 1
    ELSE IF FirstPos(np["unary_idx"], node_ids[0]) # 0 \/ node_ids[0] # 0
         THEN fail(w, "IndexError")
    \* log_unary[0, :] += log_dups_val[0, :] adds [S, K] into [S, K0]
    ELSE IF K # K0 /\ K # 1 THEN fail(w, "ValueError")
    ELSE
    LET log_dups_val == NpLog(unary_vals)
        merged == Arr3(np["log_unary"].shape, LAMBDA d, s, n :
                        LnAdd(At3(np["log_unary"], d, s, n),
                              At3(log_dups_val, 0, s, IF K = 1 THEN 0 ELSE n)))
    IN  \* np.delete(node_ids, dups) drops position 0, np.delete(unary_vals, dups,
        \* axis=0) drops the only row along axis 0
        [w |-> [w EXCEPT !.grps[g].nodes_params["log_unary"] = merged],
         node_ids |-> [i \in 0 .. K - 2 |-> node_ids[i + 1]],
         unary_vals |-> [shape |-> <<0, unary_vals.shape[2], K>>, v |-> <<>>]]

\* VarNodes.add_unaries.  node_ids is the list of ids, rows the unary of each;
\* as_list tells that unary_vals was passed as a plain list of num_states values.
VarNodes_add_unaries(w, g, node_ids, rows, as_list) ==
    IF as_list /\ Len(node_ids) # 1 THEN Raise(w, "AssertionError")
    ELSE IF Len(rows) # Len(node_ids) THEN Raise(w, "AssertionError")
    ELSE IF Len(rows[1]) # w.chunks[<<g, "vars">>].num_states THEN Raise(w, "AssertionError")
    ELSE
    LET ids == [i \in 0 .. Len(node_ids) - 1 |-> node_ids[i + 1]]
        np == w.grps[g].nodes_params
    IN  Bind(PrepareUnaries(rows), LAMBDA unary_vals :
        IF "log_unary" \in DOMAIN np
        THEN Bind(VarNodes_merge_duplicate_unaries(w, g, ids, unary_vals), LAMBDA m :
                 LET np1 == m.w.grps[g].nodes_params IN
                 IF ~Ok(m.w) \/ FnLen(m.node_ids) = 0 THEN m.w
                 \* np.concatenate(.., axis=2) wants equal lengths along axes 0 and 1
                 ELSE IF np1["log_unary"].shape[1] # m.unary_vals.shape[1]
                      THEN Raise(m.w, "ValueError")
                      ELSE [m.w EXCEPT !.grps[g].nodes_params =
                              DictSet(DictSet(np1, "log_unary",
                                              ConcatNodes(np1["log_unary"], NpLog(m.unary_vals))),
                                      "unary_idx", Concat(np1["unary_idx"], m.node_ids))])
        ELSE [w EXCEPT !.grps[g].nodes_params =
                  DictSet(DictSet(np, "log_unary", NpLog(unary_vals)), "unary_idx", ids)])

\* The list tmp of condition_on: 1.0 at state, 0.0 elsewhere.
OneHot(S, state) == [j \in 1 .. S |-> IF j = state + 1 THEN One ELSE Zero]

RECURSIVE ConditionEach(_, _, _, _)
ConditionEach(w, g, node_ids, state) ==
    IF node_ids = <<>> \/ ~Ok(w) THEN w
    ELSE Bind(VarNodes_add_unaries(w, g, <<Head(node_ids)>>,
                                   <<OneHot(w.grps[g].num_states, state)>>, TRUE),
              LAMBDA w1 : ConditionEach(w1, g, Tail(node_ids), state))

\* VarNodes.condition_on
VarNodes_condition_on(w, g, node_ids, state) ==
    IF ~(state < w.grps[g].num_states) THEN Raise(w, "AssertionError")
    ELSE ConditionEach(w, g, node_ids, state)

\* np.argsort(idx, axis=0): the positions of idx in increasing order of value,
\* equal values in their order of appearance.
RECURSIVE ArgSort(_, _)
ArgSort(idx, left) ==
    IF left = {} THEN <<>>
    ELSE LET p == CHOOSE p \in left : \A q \in left :
                        idx[p] < idx[q] \/ (idx[p] = idx[q] /\ p <= q)
         IN  <<p>> \o ArgSort(idx, left \ {p})

\* VarNodes.finalize
VarNodes_finalize(w, g, seed, off) ==
    LET np == w.grps[g].nodes_params IN
    Bind(IF "unary_idx" \in DOMAIN np
            /\ FnLen(np["unary_idx"]) = w.chunks[<<g, "vars">>].num_entries
         THEN LET idx_resh == ArgSort(np["unary_idx"], DOMAIN np["unary_idx"])
                  lu == np["log_unary"]
              IN  [w EXCEPT !.grps[g].nodes_params =
                     DictDel(DictSet(np, "log_unary",
                                     Arr3(lu.shape, LAMBDA d, s, n :
                                             At3(lu, d, s, idx_resh[n + 1]))),
                             "unary_idx")]
         ELSE w,
         LAMBDA w1 : Nodes_finalize(w1, g, seed, off))

\* np.sum(np.log(msgs), axis=0, keepdims=True): an array of shape [1, S, N]
LogSumSlots(msgs) ==
    Arr3(<<1, msgs.shape[2], msgs.shape[3]>>, LAMBDA d, s, n :
            Ln(RProd([k \in 0 .. msgs.shape[1] - 1 |-> At3(msgs, k, s, n)], msgs.shape[1])))

\* The last position of n in idx, -1 when there is none: with an id repeated in
\* the index array of an in-place +=, the write of its last position stays.
LastPos(idx, n) ==
    IF n \in Range(idx)
    THEN CHOOSE p \in DOMAIN idx : idx[p] = n /\ \A q \in DOMAIN idx : idx[q] = n => q <= p
    ELSE -1

\* VarNodes.__include_unary
VarNodes_include_unary(np, log_arr) ==
    IF "log_unary" \in DOMAIN np
    THEN IF "unary_idx" \in DOMAIN np
         THEN Arr3(log_arr.shape, LAMBDA d, s, n :
                    IF LastPos(np["unary_idx"], n) >= 0
                    THEN LnAdd(At3(log_arr, d, s, n),
                               At3(np["log_unary"], 0, s, LastPos(np["unary_idx"], n)))
                    ELSE At3(log_arr, d, s, n))
         ELSE Arr3(log_arr.shape, LAMBDA d, s, n :
                    LnAdd(At3(log_arr, d, s, n), At3(np["log_unary"], 0, s, n)))
    ELSE log_arr

\* np.exp(a - logsumexp(a, axis=1, keepdims=True)) of an array of logs
ExpNormalize(a) ==
    Bind([a EXCEPT !.v = [i \in DOMAIN a.v |-> Exp(a.v[i])]],
         LAMBDA e : NormalizeStates(e))

\* VarNodes.__update_beliefs: the value given to self.bel
VarNodes_update_beliefs(w, g) ==
    Bind(LogSumSlots(w.chunks[<<g, "vars">>].msgs_in), LAMBDA log_bel :
        Bind(VarNodes_include_unary(w.grps[g].nodes_params, log_bel),
             LAMBDA with_unary : ExpNormalize(with_unary)))

\* VarNodes.get_beliefs
VarNodes_get_beliefs(w, g) == [w EXCEPT !.grps[g].bel = VarNodes_update_beliefs(w, g)]

\* VarNodes._do_compute_messages
VarNodes_do_compute_messages(w, g) ==
    LET msg_in == w.chunks[<<g, "vars">>].msgs_in IN
    IF msg_in.shape[1] = 2
    THEN [vars |-> Arr3(msg_in.shape, LAMBDA d, s, n : At3(msg_in, 1 - d, s, n))]
    ELSE Bind(LogSumSlots(msg_in), LAMBDA log_sum :
         Bind(VarNodes_include_unary(w.grps[g].nodes_params, log_sum), LAMBDA all_log_sum :
         Bind(Arr3(msg_in.shape, LAMBDA d, s, n :
                      LnSub(At3(all_log_sum, 0, s, n), Ln(At3(msg_in, d, s, n)))),
              LAMBDA f_msg : [vars |-> ExpNormalize(f_msg)])))

\* ------------------------------------------------- PottsNodes and CatNodes

\* np.max of f over the indices 0..n-1, or np.sum, by bp_algo
\* (CatNodes.max_or_sum).
max_or_sum(bp_algo, f, n) == IF bp_algo = "max" THEN RMaxOf(f, n) ELSE RSum(f, n)

\* PottsNodes.__init__ and CatNodes.__init__: probs is the n x m list of lists, kept
\* transposed and reshaped to [m, n, 1].
NewPottsNodes(alpha, bp_algo) ==
    NewNodes("PottsNodes", [alpha |-> alpha, bp_algo |-> bp_algo], 0)
NewCatNodes(probs, bp_algo) ==
    NewNodes("CatNodes",
             [probs |-> Arr3(<<Len(probs[1]), Len(probs), 1>>,
                             LAMBDA m, n, k : probs[n + 1][m + 1]),
              bp_algo |-> bp_algo], 0)

\* PottsNodes._do_compute_messages.  In the 'max' branch the entry of state s is
\* max(res[s], alpha * max of res over the other states): state_max for a state
\* that is not the arg-max, state_max2 for the arg-max.
PottsNodes_do_compute_messages(w, g) ==
    LET alpha == w.grps[g].nodes_params.alpha
        msgs == w.chunks[<<g, "default">>].msgs_in
        S == msgs.shape[2]
    IN  Bind(Arr3(msgs.shape, LAMBDA d, s, n : At3(msgs, 1 - d, s, n)), LAMBDA res0 :
        LET others(d, s, n) ==
                [k \in 0 .. S - 2 |-> At3(res0, d, IF k < s THEN k ELSE k + 1, n)]
        IN  Bind(IF w.grps[g].nodes_params.bp_algo = "sum"
                 THEN Arr3(msgs.shape, LAMBDA d, s, n :
                          RAdd(RMul(At3(res0, d, s, n), RSub(One, alpha)), alpha))
                 ELSE Arr3(msgs.shape, LAMBDA d, s, n :
                          RMax(At3(res0, d, s, n),
                               RMul(alpha, RMaxOf(others(d, s, n), S - 1)))),
                 LAMBDA res : [exc |-> "none",
                               msgs_hash |-> [default |-> NormalizeStates(res)]]))

\* CatNodes._do_compute_messages
CatNodes_do_compute_messages(w, g) ==
    LET probs == w.grps[g].nodes_params.probs
        algo == w.grps[g].nodes_params.bp_algo
        msg_from_outputs == w.chunks[<<g, "output">>].msgs_in
        msg_from_input == w.chunks[<<g, "input">>].msgs_in
        Do == msg_from_outputs.shape[1]
        N == msg_from_outputs.shape[3]
        Pm == probs.shape[1]
        Pn == probs.shape[2]
        Di == msg_from_input.shape[1]
        Si == msg_from_input.shape[2]
        B0 == Bc(Pm, Do)
        B1 == Bc(Pm, Di)
        fail(e) == [exc |-> e, msgs_hash |-> <<>>]
    IN
    \* msg_from_outputs[:, [1], :]
    IF msg_from_outputs.shape[2] < 2 THEN fail("IndexError")
    \* probs * output_ratio, probs * msg_from_input
    ELSE IF B0 = -1 \/ B1 = -1 \/ Bc(Pn, Si) = -1 THEN fail("ValueError")
    \* msg[:, [1], :] = max_or_sum(weighted_in, axis=1, keepdims=True)
    ELSE IF B1 # Do /\ B1 # 1 THEN fail("ValueError")
    ELSE
    Bind([d \in 0 .. Do - 1 |-> [n \in 0 .. N - 1 |->
            RDiv(At3(msg_from_outputs, d, 1, n), At3(msg_from_outputs, d, 0, n))]],
         LAMBDA output_ratio :
    LET weighted_out(d, s, n) == RMul(At3(probs, BIx(d, Pm), s, 0),
                                      output_ratio[BIx(d, Do)][n])
        weighted_in(d, s, n) == RMul(At3(probs, BIx(d, Pm), BIx(s, Pn), 0),
                                     At3(msg_from_input, BIx(d, Di), BIx(s, Si), n))
    IN
    Bind([d \in 0 .. Do - 1 |-> [n \in 0 .. N - 1 |->
            max_or_sum(algo, [k \in 0 .. Bc(Pn, Si) - 1 |-> weighted_in(BIx(d, B1), k, n)],
                       Bc(Pn, Si))]],
         LAMBDA msg1 :
    Bind([d \in 0 .. Do - 1 |-> [n \in 0 .. N - 1 |-> RMul(output_ratio[d][n], msg1[d][n])]],
         LAMBDA msg0a :
    Bind(Arr3(msg_from_outputs.shape, LAMBDA d, s, n :
            IF s = 0
            THEN RSub(max_or_sum(algo, [k \in 0 .. Do - 1 |-> msg0a[k][n]], Do), msg0a[d][n])
            ELSE IF s = 1 THEN msg1[d][n] ELSE Zero),
         LAMBDA msg :
    [exc |-> "none",
     msgs_hash |-> [input |-> Arr3(<<1, Pn, N>>, LAMBDA d, s, n :
                                max_or_sum(algo, [k \in 0 .. B0 - 1 |-> weighted_out(k, s, n)],
                                           B0)),
                    output |-> NormalizeStates(msg)]]))))

\* NoisyOrNodes.__init__ (the pad values it gives its chunks are in
\* NoisyOrPad).
NewNoisyOrNodes(leak_prob, prob_success, bp_algo) ==
    NewNodes("NoisyOrNodes",
             [leak_prob |-> leak_prob, prob_success |-> prob_success, bp_algo |-> bp_algo], 0)
NoisyOrPad(role) == IF role = "input" THEN <<One, Zero>> ELSE << <<1, 2>>, <<1, 2>> >>

\* NoisyOrNodes._do_compute_messages
NoisyOrNodes_do_compute_messages(w, g) ==
    LET leak_prob == w.grps[g].nodes_params.leak_prob
        exp_neg_beta == RSub(One, w.grps[g].nodes_params.prob_success)
        msg_from_input == w.chunks[<<g, "input">>].msgs_in
        msg_from_output == w.chunks[<<g, "output">>].msgs_in
        Di == msg_from_input.shape[1]
        Do == msg_from_output.shape[1]
        N == msg_from_input.shape[3]
        B == Bc(Di, Do)
        fail(e) == [exc |-> e, msgs_hash |-> <<>>]
    IN
    \* msg_from_input[:, [1], :], msg[:, [1], :]
    IF msg_from_input.shape[2] < 2 \/ msg_from_output.shape[2] < 2 THEN fail("IndexError")
    \* r_j * (msg_from_output[:, [0], :] - ..), and its assignment to msg[:, [0], :]
    ELSE IF B = -1 \/ (B # Di /\ B # 1) THEN fail("ValueError")
    ELSE
    Bind([d \in 0 .. Di - 1 |-> [n \in 0 .. N - 1 |->
            RAdd(At3(msg_from_input, d, 0, n),
                 RMul(exp_neg_beta, At3(msg_from_input, d, 1, n)))]],
         LAMBDA tmp_weighted :
    Bind([n \in 0 .. N - 1 |-> RProd([d \in 0 .. Di - 1 |-> tmp_weighted[d][n]], Di)],
         LAMBDA tmp_prod_weighted :
    Bind([d \in 0 .. B - 1 |-> [n \in 0 .. N - 1 |->
            RMul(RMul(RSub(One, leak_prob),
                      RDiv(tmp_prod_weighted[n], tmp_weighted[BIx(d, Di)][n])),
                 RSub(At3(msg_from_output, BIx(d, Do), 0, n),
                      At3(msg_from_output, BIx(d, Do), 1, n)))]],
         LAMBDA tmp_out :
    Bind(Arr3(msg_from_input.shape, LAMBDA d, s, n :
            IF s = 0 THEN RAdd(At3(msg_from_output, BIx(d, Do), 1, n), tmp_out[BIx(d, B)][n])
            ELSE IF s = 1
                 THEN RAdd(At3(msg_from_output, BIx(d, Do), 1, n),
                           RMul(exp_neg_beta, tmp_out[BIx(d, B)][n]))
                 ELSE Zero),
         LAMBDA msg :
    [exc |-> "none",
     msgs_hash |->
        [output |-> Arr3(msg_from_output.shape, LAMBDA d, s, n :
                        IF s = 0 THEN RMul(RSub(One, leak_prob), tmp_prod_weighted[n])
                        ELSE IF s = 1
                             THEN RSub(One, RMul(RSub(One, leak_prob), tmp_prod_weighted[n]))
                             ELSE Zero),
         input |-> NormalizeStates(msg)]]))))

\* The _do_compute_messages of the group's class.
do_compute_messages(w, g) ==
    CASE w.grps[g].cls = "VarNodes" ->
            [exc |-> "none", msgs_hash |-> VarNodes_do_compute_messages(w, g)]
      [] w.grps[g].cls = "PottsNodes" -> PottsNodes_do_compute_messages(w, g)
      [] w.grps[g].cls = "CatNodes" -> CatNodes_do_compute_messages(w, g)
      [] w.grps[g].cls = "NoisyOrNodes" -> NoisyOrNodes_do_compute_messages(w, g)

\* Nodes.compute_messages: the exception raised, or the dictionary returned.
Nodes_compute_messages(w, g) ==
    Bind(do_compute_messages(w, g), LAMBDA r :
        IF r.exc # "none" THEN r
        ELSE [exc |-> "none",
              msgs_hash |-> [key \in DOMAIN r.msgs_hash |->
                                MessageChunk_clamp_messages(r.msgs_hash[key])]])

\* PottsNodes.finalize: when a chunk's msgs_in.shape[0] is not 2 the message of the
\* failing assert reads chunk.msg_in, an attribute a MessageChunk does not have.
PottsNodes_finalize(w, g, seed, off) ==
    Bind(Nodes_finalize(w, g, seed, off), LAMBDA w1 :
        IF ~Ok(w1) THEN w1
        ELSE IF w1.grps[g].nodes_params.bp_algo \notin {"max", "sum"}
             THEN Raise(w1, "AssertionError")
        ELSE IF \E i \in 1 .. Len(ChunksOf(w1, g)) :
                    w1.chunks[ChunksOf(w1, g)[i]].msgs_in.shape[1] # 2
             THEN Raise(w1, "AttributeError")
             ELSE w1)

\* CatNodes.finalize
CatNodes_finalize(w, g, seed, off) ==
    Bind(Nodes_finalize(w, g, seed, off), LAMBDA w1 :
        IF ~Ok(w1) THEN w1
        ELSE IF w1.chunks[<<g, "output">>].msgs_in.shape[1]
                    # w1.grps[g].nodes_params.probs.shape[1]
             THEN Raise(w1, "AssertionError")
             ELSE w1)

\* The finalize of the group's class.
Group_finalize(w, g, seed, off) ==
    CASE w.grps[g].cls = "VarNodes" -> VarNodes_finalize(w, g, seed, off)
      [] w.grps[g].cls = "PottsNodes" -> PottsNodes_finalize(w, g, seed, off)
      [] w.grps[g].cls = "CatNodes" -> CatNodes_finalize(w, g, seed, off)
      [] w.grps[g].cls = "NoisyOrNodes" -> Nodes_finalize(w, g, seed, off)

\* The values __alloc_message draws for the chunks of a group.
RECURSIVE DrawsOfAll(_, _)
DrawsOfAll(w, cs) == IF cs = <<>> THEN 0 ELSE DrawsOf(w.chunks[Head(cs)]) + DrawsOfAll(w, Tail(cs))

\* ---------------------------------------------------------------- BpGraph

\* The frame of no running call.
IdleFrame == [pc |-> "idle", itt |-> 0, pos |-> 0, msgs_hash |-> <<>>, keys |-> <<>>,
              max_diff |-> Zero, is_converged |-> FALSE, broke |-> FALSE]

\* BpGraph.__init__
NewBpGraph(bp_params) ==
    [bp_params |-> bp_params, streak_count |-> 0, prev_bel |-> <<>>, nodes |-> <<>>,
     is_finalized |-> FALSE]

\* add_nodes_to_schedule without the test 'nodes not in self.nodes'.
BpGraph_add_nodes_to_schedule_NoTest(w, nodes) ==
    [w EXCEPT !.graph.nodes = Append(@, nodes)]

\* BpGraph.add_nodes_to_schedule
BpGraph_add_nodes_to_schedule(w, nodes) ==
    IF nodes \notin Range(w.graph.nodes)
    THEN [w EXCEPT !.graph.nodes = Append(@, nodes)]
    ELSE w

\* The degree update of add_edge without the update of max_degree.
BumpDegree_KeepMax(w, c, id) ==
    [w EXCEPT !.chunks[c].degree[id] = @ + 1]

\* The degree and max_degree updates that end BpGraph.add_edge, for one endpoint.
BumpDegree(w, c, id) ==
    LET d == w.chunks[c].degree[id] + 1 IN
    [w EXCEPT !.chunks[c].degree[id] = d,
              !.chunks[c].max_degree = IF @ < d THEN d ELSE @]

\* BpGraph.add_edge
BpGraph_add_edge(w, c_nodes, c_id, o_nodes, o_id, edge_type) ==
    IF edge_type \notin EDGE_TYPES(w.grps[o_nodes].cls) THEN Raise(w, "AssertionError")
    ELSE
    LET var_message_chunk == <<c_nodes, "vars">>
        c_chunk_num_states == w.chunks[var_message_chunk].num_states
        o_chunk_edge == <<o_nodes, edge_type>>
    IN
    Bind(IF w.chunks[o_chunk_edge].num_states = 0
         THEN MessageChunk_set_num_states(w, o_chunk_edge, c_chunk_num_states)
         ELSE IF c_chunk_num_states # w.chunks[o_chunk_edge].num_states
              THEN Raise(w, "AssertionError")
              ELSE w, LAMBDA w1 :
    IF ~Ok(w1) THEN w1
    ELSE
    Bind(GraphEdgeInfo_add_edge(w1, var_message_chunk, c_id, o_chunk_edge, o_id), LAMBDA w2 :
    IF ~Ok(w2) THEN w2
    ELSE Bind(BumpDegree(w2, var_message_chunk, c_id),
              LAMBDA w3 : BumpDegree(w3, o_chunk_edge, o_id))))

\* The loop of BpGraph.finalize over the scheduled groups left to finalize.
RECURSIVE FinalizeNodes(_, _, _, _)
FinalizeNodes(w, nodes, seed, off) ==
    IF nodes = <<>> \/ ~Ok(w) THEN w
    ELSE Bind(Group_finalize(w, Head(nodes), seed, off), LAMBDA w1 :
            FinalizeNodes(w1, Tail(nodes), seed,
                          off + DrawsOfAll(w, ChunksOf(w, Head(nodes)))))

\* BpGraph.finalize without the assert on the schedule.
BpGraph_finalize_NoScheduleCheck(w, seed) ==
    IF w.graph.is_finalized THEN Raise(w, "AssertionError")
    ELSE Bind(FinalizeNodes(w, w.graph.nodes, seed, 0), LAMBDA w1 :
            IF ~Ok(w1) THEN w1
            ELSE Bind(GraphEdgeInfo_finalize(w1), LAMBDA w2 :
                    IF Ok(w2) THEN [w2 EXCEPT !.graph.is_finalized = TRUE] ELSE w2))

\* BpGraph.finalize; seed fixes the stream np.random gives the call.
BpGraph_finalize(w, seed) ==
    IF w.graph.is_finalized \/ ~(Len(w.graph.nodes) > 0) THEN Raise(w, "AssertionError")
    ELSE Bind(FinalizeNodes(w, w.graph.nodes, seed, 0), LAMBDA w1 :
            IF ~Ok(w1) THEN w1
            ELSE Bind(GraphEdgeInfo_finalize(w1), LAMBDA w2 :
                    IF Ok(w2) THEN [w2 EXCEPT !.graph.is_finalized = TRUE] ELSE w2))

\* The last row of chunk_entries whose column col is r, -1 when there is none.
EdgeAt(chunk_entries, col, r) ==
    IF \E i \in DOMAIN chunk_entries : chunk_entries[i][col] = r
    THEN CHOOSE i \in DOMAIN chunk_entries : chunk_entries[i][col] = r
            /\ \A j \in DOMAIN chunk_entries : chunk_entries[j][col] = r => j <= i
    ELSE -1

\* The loop body of _distribute_messages with the two weights exchanged.
DistributeTo_SwappedWeights(w, d, msgs) ==
    Bind(MessageChunk_prepare_msgs_for_distribution(w, d.dest), LAMBDA w1 :
    IF ~Ok(w1) THEN w1
    ELSE
    LET damp == w.graph.bp_params.damp
        msgs_in == w1.chunks[d.dest].msgs_in
        S == msgs_in.shape[2]
        e(r) == EdgeAt(d.chunk_entries, d.to_index[2], r)
        source_idx(r) == d.chunk_entries[e(r)][d.to_index[1]]
    IN
    Bind([w1 EXCEPT !.chunks[d.dest].msgs_in =
            Arr(msgs_in.shape, LAMBDA i :
                IF e(i \div S) >= 0
                THEN RAdd(RMul(msgs_in.v[i], RSub(One, damp)),
                          RMul(damp, At2(msgs, source_idx(i \div S), i % S)))
                ELSE msgs_in.v[i])],
         LAMBDA w2 : MessageChunk_prepare_msgs_for_computation(w2, d.dest)))

\* The loop body of _distribute_messages without the closing
\* prepare_msgs_for_computation().
DistributeTo_NoRoll(w, d, msgs) ==
    Bind(MessageChunk_prepare_msgs_for_distribution(w, d.dest), LAMBDA w1 :
    IF ~Ok(w1) THEN w1
    ELSE
    LET damp == w.graph.bp_params.damp
        msgs_in == w1.chunks[d.dest].msgs_in
        S == msgs_in.shape[2]
        e(r) == EdgeAt(d.chunk_entries, d.to_index[2], r)
        source_idx(r) == d.chunk_entries[e(r)][d.to_index[1]]
    IN  [w1 EXCEPT !.chunks[d.dest].msgs_in =
            Arr(msgs_in.shape, LAMBDA i :
                IF e(i \div S) >= 0
                THEN RAdd(RMul(msgs_in.v[i], damp),
                          RMul(RSub(One, damp), At2(msgs, source_idx(i \div S), i % S)))
                ELSE msgs_in.v[i])])

\* The body of the loop of BpGraph._distribute_messages for one destination;
\* msgs is the source's messages, one per row.
DistributeTo(w, d, msgs) ==
    Bind(MessageChunk_prepare_msgs_for_distribution(w, d.dest), LAMBDA w1 :
    IF ~Ok(w1) THEN w1
    ELSE
    LET damp == w.graph.bp_params.damp
        msgs_in == w1.chunks[d.dest].msgs_in
        S == msgs_in.shape[2]
        e(r) == EdgeAt(d.chunk_entries, d.to_index[2], r)
        source_idx(r) == d.chunk_entries[e(r)][d.to_index[1]]
    IN
    Bind(Arr(msgs_in.shape, LAMBDA i :
                IF e(i \div S) >= 0 THEN RMul(msgs_in.v[i], damp) ELSE msgs_in.v[i]),
         LAMBDA damped :
    IF \E i \in DOMAIN d.chunk_entries :
            d.chunk_entries[i][d.to_index[2]] >= msgs_in.shape[1]
    THEN Raise(w1, "IndexError")
    ELSE IF \E i \in DOMAIN d.chunk_entries :
                d.chunk_entries[i][d.to_index[1]] >= msgs.shape[1]
    THEN Raise([w1 EXCEPT !.chunks[d.dest].msgs_in = damped], "IndexError")
    ELSE IF msgs.shape[2] # S
    THEN Raise([w1 EXCEPT !.chunks[d.dest].msgs_in = damped], "ValueError")
    ELSE
    Bind([w1 EXCEPT !.chunks[d.dest].msgs_in =
            Arr(msgs_in.shape, LAMBDA i :
                IF e(i \div S) >= 0
                THEN RAdd(damped.v[i],
                          RMul(RSub(One, damp), At2(msgs, source_idx(i \div S), i % S)))
                ELSE damped.v[i])],
         LAMBDA w2 : MessageChunk_prepare_msgs_for_computation(w2, d.dest))))

RECURSIVE DistributeAll(_, _, _)
DistributeAll(w, dests, msgs) ==
    IF dests = <<>> \/ ~Ok(w) THEN w
    ELSE Bind(DistributeTo(w, Head(dests), msgs),
              LAMBDA w1 : DistributeAll(w1, Tail(dests), msgs))

\* BpGraph._distribute_messages
BpGraph_distribute_messages(w, msg_chunk_source, msgs) ==
    Bind(do_prepare_msgs_for_distribution(msgs), LAMBDA m :
        DistributeAll(w, GraphEdgeInfo_get_msg_chunk_dests(w.edge_info, msg_chunk_source), m))

\* max |a - b| over the entries of two arrays of the same shape.
MaxAbsDiff(a, b) ==
    RMaxOf([i \in DOMAIN a.v |-> RAbs(RSub(a.v[i], b.v[i]))], FnLen(a.v))

\* get_beliefs() called on every VarNodes object of the schedule from position i on.
RECURSIVE BeliefsFrom(_, _)
BeliefsFrom(w, i) ==
    IF i > Len(w.graph.nodes) THEN w
    ELSE Bind(IF w.grps[w.graph.nodes[i]].cls = "VarNodes"
              THEN VarNodes_get_beliefs(w, w.graph.nodes[i]) ELSE w,
              LAMBDA w1 : BeliefsFrom(w1, i + 1))

\* __check_converged with max_diff < tol for max_diff <= tol.
BpGraph_check_converged_Strict(w) ==
    LET nodes == w.graph.nodes IN
    Bind(BeliefsFrom(w, 1), LAMBDA w1 :
    Bind(RMaxOf([i \in 0 .. Len(nodes) - 1 |->
                    IF w.grps[nodes[i + 1]].cls = "VarNodes"
                    THEN MaxAbsDiff(w.graph.prev_bel[i + 1], w1.grps[nodes[i + 1]].bel)
                    ELSE Zero], Len(nodes)),
         LAMBDA max_diff :
            [w |-> w1, max_diff |-> max_diff,
             is_converged |-> RLt(max_diff, w.graph.bp_params.tol)]))

\* BpGraph.__check_converged: the world after its get_beliefs() calls, and the
\* pair it returns.
BpGraph_check_converged(w) ==
    LET nodes == w.graph.nodes IN
    Bind(BeliefsFrom(w, 1), LAMBDA w1 :
    Bind(RMaxOf([i \in 0 .. Len(nodes) - 1 |->
                    IF w.grps[nodes[i + 1]].cls = "VarNodes"
                    THEN MaxAbsDiff(w.graph.prev_bel[i + 1], w1.grps[nodes[i + 1]].bel)
                    ELSE Zero], Len(nodes)),
         LAMBDA max_diff :
            [w |-> w1, max_diff |-> max_diff,
             is_converged |-> RLe(max_diff, w.graph.bp_params.tol)]))

\* None as an entry of prev_bel: an array of no shape. The loop reads prev_bel[i]
\* only for a VarNodes object, after the snapshot of iteration 0 has replaced it.
None == [shape |-> <<>>, v |-> <<>>]

\* do_message_passing, entry: the assert, the reset of prev_bel, the first
\* evaluation of the loop condition.
DMP_Call(w) ==
    IF ~w.graph.is_finalized THEN Raise(w, "AssertionError")
    ELSE [w EXCEPT !.graph.prev_bel = [i \in 1 .. Len(w.graph.nodes) |-> None],
                   !.frame = [IdleFrame EXCEPT
                                 !.pc = IF w.graph.bp_params.iters > 0 THEN "compute"
                                        ELSE "return",
                                 !.pos = 1]]

\* do_message_passing: msgs_hash = chunk.compute_messages()
DMP_Compute(w) ==
    Bind(Nodes_compute_messages(w, w.graph.nodes[w.frame.pos]), LAMBDA r :
        IF r.exc # "none" THEN Raise(w, r.exc)
        ELSE [w EXCEPT !.frame.msgs_hash = r.msgs_hash,
                       !.frame.keys = InOrder(RoleOrder, DOMAIN r.msgs_hash),
                       !.frame.pc = "distribute"])

\* The pass of the loop over msgs_hash.keys() without the delivery.
DMP_Distribute_NoDelivery(w) ==
    IF Tail(w.frame.keys) # <<>> THEN [w EXCEPT !.frame.keys = Tail(@)]
    ELSE [w EXCEPT !.frame.keys = <<>>,
                   !.frame.msgs_hash = <<>>,
                   !.frame.pos = IF @ < Len(w.graph.nodes) THEN @ + 1 ELSE 0,
                   !.frame.pc = IF w.frame.pos < Len(w.graph.nodes) THEN "compute"
                                ELSE "end_iter"]

\* do_message_passing: one pass of the loop over msgs_hash.keys(), and the move to
\* the next group or to the end of the iteration after the last key.
DMP_Distribute(w) ==
    LET chunk == w.graph.nodes[w.frame.pos]
        key == Head(w.frame.keys)
    IN  Bind(BpGraph_distribute_messages(w, <<chunk, key>>, w.frame.msgs_hash[key]),
             LAMBDA w1 :
        IF ~Ok(w1) THEN w1
        ELSE IF Tail(w.frame.keys) # <<>> THEN [w1 EXCEPT !.frame.keys = Tail(@)]
        ELSE [w1 EXCEPT !.frame.keys = <<>>,
                        !.frame.msgs_hash = <<>>,
                        !.frame.pos = IF @ < Len(w.graph.nodes) THEN @ + 1 ELSE 0,
                        !.frame.pc = IF w.frame.pos < Len(w.graph.nodes) THEN "compute"
                                     ELSE "end_iter"])

\* The snapshot loop that ends an iteration: prev_bel[i] = get_beliefs() for the
\* VarNodes objects of the schedule.
SnapshotBeliefs(w) ==
    Bind(BeliefsFrom(w, 1), LAMBDA w1 :
        [w1 EXCEPT !.graph.prev_bel =
            [i \in 1 .. Len(w.graph.nodes) |->
                IF w.grps[w.graph.nodes[i]].cls = "VarNodes"
                THEN w1.grps[w.graph.nodes[i]].bel
                ELSE w.graph.prev_bel[i]]])

\* The end of an iteration with the streak left as it is after iteration 0.
DMP_EndIteration_KeepStreak(w) ==
    Bind(IF w.frame.itt # 0 THEN BpGraph_check_converged(w)
         ELSE [w |-> w, max_diff |-> Zero, is_converged |-> FALSE], LAMBDA c :
    LET streak_count == IF c.is_converged THEN w.graph.streak_count + 1
                        ELSE IF w.frame.itt = 0 THEN w.graph.streak_count ELSE 0 IN
    Bind([c.w EXCEPT !.graph.streak_count = streak_count,
                     !.frame.max_diff = c.max_diff,
                     !.frame.is_converged = c.is_converged], LAMBDA w1 :
        IF streak_count >= w.graph.bp_params.streak_lim
        THEN [w1 EXCEPT !.frame.broke = TRUE, !.frame.pc = "return"]
        ELSE Bind(SnapshotBeliefs(w1), LAMBDA w2 :
             [w2 EXCEPT
                 !.frame.itt = IF @ + 1 < w.graph.bp_params.iters THEN @ + 1 ELSE @,
                 !.frame.pos = IF w.frame.itt + 1 < w.graph.bp_params.iters THEN 1 ELSE 0,
                 !.frame.pc = IF w.frame.itt + 1 < w.graph.bp_params.iters THEN "compute"
                              ELSE "return"])))

\* do_message_passing, the end of iteration itt: the convergence check, the
\* streak, the break or the snapshot, and the next evaluation of the loop condition.
DMP_EndIteration(w) ==
    Bind(IF w.frame.itt # 0 THEN BpGraph_check_converged(w)
         ELSE [w |-> w, max_diff |-> Zero, is_converged |-> FALSE], LAMBDA c :
    LET streak_count == IF c.is_converged THEN w.graph.streak_count + 1 ELSE 0 IN
    Bind([c.w EXCEPT !.graph.streak_count = streak_count,
                     !.frame.max_diff = c.max_diff,
                     !.frame.is_converged = c.is_converged], LAMBDA w1 :
        IF streak_count >= w.graph.bp_params.streak_lim
        THEN [w1 EXCEPT !.frame.broke = TRUE, !.frame.pc = "return"]
        ELSE Bind(SnapshotBeliefs(w1), LAMBDA w2 :
             [w2 EXCEPT
                 !.frame.itt = IF @ + 1 < w.graph.bp_params.iters THEN @ + 1 ELSE @,
                 !.frame.pos = IF w.frame.itt + 1 < w.graph.bp_params.iters THEN 1 ELSE 0,
                 !.frame.pc = IF w.frame.itt + 1 < w.graph.bp_params.iters THEN "compute"
                              ELSE "return"])))

RECURSIVE PrepareAll(_, _)
PrepareAll(w, nodes) ==
    IF nodes = <<>> \/ ~Ok(w) THEN w
    ELSE Bind(Nodes_prepare_msgs_for_computation(w, Head(nodes)),
              LAMBDA w1 : PrepareAll(w1, Tail(nodes)))

\* do_message_passing, after the loop: prepare_msgs_for_computation() on every
\* scheduled group, and the return.
DMP_Return(w) ==
    Bind(PrepareAll(w, w.graph.nodes),
         LAMBDA w1 : IF Ok(w1) THEN [w1 EXCEPT !.frame.pc = "idle"] ELSE w1)

\* One step of a running do_message_passing call.
DMP_Step(w) ==
    CASE w.frame.pc = "compute" -> DMP_Compute(w)
      [] w.frame.pc = "distribute" -> DMP_Distribute(w)
      [] w.frame.pc = "end_iter" -> DMP_EndIteration(w)
      [] w.frame.pc = "return" -> DMP_Return(w)

\* The steps of a call up to its return or to the exception that ends it.
RECURSIVE DMP_Run(_)
DMP_Run(w) ==
    IF ~Ok(w) \/ w.frame.pc = "idle" THEN w
    ELSE Bind(DMP_Step(w), LAMBDA w1 : DMP_Run(w1))

\* BpGraph.do_message_passing, from call to return.
BpGraph_do_message_passing(w) == Bind(DMP_Call(w), LAMBDA w1 : DMP_Run(w1))

\* ------------------------------------------------------- the program's runs

\* The objects as one world, and the world an action leaves.
World == [chunks |-> chunks, grps |-> grps, edge_info |-> edge_info, graph |-> graph,
          frame |-> frame, exc |-> exc]
Commit(w) ==
    /\ chunks' = w.chunks
    /\ grps' = w.grps
    /\ edge_info' = w.edge_info
    /\ graph' = w.graph
    /\ frame' = w.frame
    /\ exc' = w.exc

\* The parameters the groups and the graph are built with.
NumStates(g) == IF g = "V" THEN 2 ELSE 3
PottsAlpha == <<1, 2>>
CatProbs == << <<<<1, 2>>>>, <<<<1, 4>>>> >>
FactorChoices == {NewPottsNodes(PottsAlpha, "sum"), NewCatNodes(CatProbs, "sum")}
BpParamsChoices ==
    {[iters |-> 2, damp |-> <<0, 1>>, streak_lim |-> 1, tol |-> <<1, 8>>]}
Seeds == {5}

\* The chunks the constructors of the three groups create.
AllChunks == {<<"V", "vars">>, <<"W", "vars">>,
              <<"F", "default">>, <<"F", "input">>, <<"F", "output">>}
ChunksFor(f) ==
    [c \in {<<"V", "vars">>, <<"W", "vars">>} \cup {<<"F", r>> : r \in f.roles} |->
        NewMessageChunk(IF c[1] = "F" THEN 0 ELSE NumStates(c[1]))]

\* What an observer keeps: the call that raised exc ("none" while exc is "none"),
\* the variable group and the edge type of the add_edge call that raised, the
\* edges add_edge accepted with the slots they were given, and the number of
\* add_unaries / condition_on calls and of do_message_passing calls made.
Raiser(op, w) == IF Ok(w) THEN "none" ELSE op

Init ==
    /\ \E f \in FactorChoices :
          /\ grps = [g \in Groups |-> IF g = "F" THEN f
                                      ELSE NewNodes("VarNodes", <<>>, NumStates(g))]
          /\ chunks = ChunksFor(f)
    /\ edge_info = NewGraphEdgeInfo
    /\ \E bp \in BpParamsChoices : graph = NewBpGraph(bp)
    /\ frame = IdleFrame
    /\ exc = "none"
    /\ hist = [raised_by |-> "none", failed_edge |-> <<>>, edges |-> <<>>, unary_calls |-> 0,
               runs |-> 0]

Running == exc = "none" /\ frame.pc = "idle"

\* The nodes this specification gives a group at most: MaxNodes to V, one to W
\* and to F.
NodesBound(g) == IF g = "V" THEN MaxNodes ELSE 1

\* nodes.create_nodes(k)
CreateNodes(g, k) ==
    /\ Running
    /\ grps[g].finalized \/ chunks[ChunksOf(World, g)[1]].num_entries + k <= NodesBound(g)
    /\ \E w \in {Nodes_create_nodes(World, g, k)} :
       /\ Commit(w)
       /\ hist' = [hist EXCEPT !.raised_by = Raiser("create_nodes", w)]

\* graph.add_nodes_to_schedule(nodes), while the graph is being built
AddNodesToSchedule(g) ==
    /\ Running
    /\ ~graph.is_finalized
    /\ \E w \in {BpGraph_add_nodes_to_schedule(World, g)} :
       /\ Commit(w)
       /\ UNCHANGED hist

\* The record kept of an accepted add_edge call, w the world it left: its
\* arguments, the degrees of its two endpoints when it was made, and the slots of
\* the row it wrote to the edge table.
EdgeRecord(w, c_nodes, c_id, o_id, edge_type) ==
    LET key == <<c_nodes, "F", edge_type>>
        row == w.edge_info.edge_hash[key][w.edge_info.edge_hash_count[key] - 1]
    IN  [c_nodes |-> c_nodes, c_id |-> c_id, o_id |-> o_id, edge_type |-> edge_type,
         c_deg |-> chunks[<<c_nodes, "vars">>].degree[c_id],
         o_deg |-> chunks[<<"F", edge_type>>].degree[o_id],
         c_loc |-> row[2], o_loc |-> row[4]]

\* graph.add_edge(c_nodes, c_id, F, o_id, edge_type) with ids create_nodes returned;
\* one more edge is tried once the graph is finalized
AddEdge(c_nodes, c_id, o_id, edge_type) ==
    /\ Running
    /\ Len(hist.edges) < MaxEdges + (IF graph.is_finalized THEN 1 ELSE 0)
    /\ c_id < chunks[<<c_nodes, "vars">>].num_entries
    /\ o_id < chunks[ChunksOf(World, "F")[1]].num_entries
    /\ \E w \in {BpGraph_add_edge(World, c_nodes, c_id, "F", o_id, edge_type)} :
       /\ Commit(w)
       /\ hist' = [hist EXCEPT
                     !.raised_by = Raiser("add_edge", w),
                     !.failed_edge = IF Ok(w) THEN @ ELSE <<c_nodes, edge_type>>,
                     !.edges = IF Ok(w)
                               THEN Append(@, EdgeRecord(w, c_nodes, c_id, o_id, edge_type))
                               ELSE @]

\* The unary an add_unaries call of this specification gives node id.
RowFor(g, id) ==
    IF g = "V" THEN (IF id = 0 THEN << <<3, 4>>, <<1, 4>> >> ELSE << <<1, 4>>, <<3, 4>> >>)
    ELSE << <<1, 2>>, <<1, 4>>, <<1, 4>> >>
IdLists == {<<0>>, <<0, 1>>}

\* nodes.add_unaries(node_ids, unary_vals) with an ndarray of one row per id; the
\* build makes one add_unaries or condition_on call
AddUnaries(g, node_ids) ==
    /\ Running
    /\ hist.unary_calls < 1
    /\ \A i \in 1 .. Len(node_ids) : node_ids[i] < chunks[<<g, "vars">>].num_entries
    /\ \E w \in {VarNodes_add_unaries(World, g, node_ids,
                    [i \in 1 .. Len(node_ids) |-> RowFor(g, node_ids[i])], FALSE)} :
       /\ Commit(w)
       /\ hist' = [hist EXCEPT !.raised_by = Raiser("add_unaries", w), !.unary_calls = @ + 1]

\* nodes.condition_on(node_ids, state)
ConditionOn(g, node_ids, state) ==
    /\ Running
    /\ hist.unary_calls < 1
    /\ \A i \in 1 .. Len(node_ids) : node_ids[i] < chunks[<<g, "vars">>].num_entries
    /\ \E w \in {VarNodes_condition_on(World, g, node_ids, state)} :
       /\ Commit(w)
       /\ hist' = [hist EXCEPT !.raised_by = Raiser("condition_on", w), !.unary_calls = @ + 1]

\* graph.finalize()
Finalize(seed) ==
    /\ Running
    /\ \E w \in {BpGraph_finalize(World, seed)} :
       /\ Commit(w)
       /\ hist' = [hist EXCEPT !.raised_by = Raiser("finalize", w)]

\* graph.do_message_passing(), from call to return; the build is followed up to
\* its first run
DoMessagePassing ==
    /\ Running
    /\ hist.runs < 1
    /\ \E w \in {BpGraph_do_message_passing(World)} :
       /\ Commit([w EXCEPT !.frame = IF Ok(w) THEN IdleFrame ELSE @])
       /\ hist' = [hist EXCEPT !.raised_by = Raiser("do_message_passing", w), !.runs = @ + 1]

Next ==
    \/ \E g \in Groups, k \in 1 .. MaxNodes : CreateNodes(g, k)
    \/ \E g \in Groups : AddNodesToSchedule(g)
    \/ \E c_nodes \in VarGroups, c_id \in 0 .. MaxNodes - 1, o_id \in 0 .. MaxNodes - 1,
          edge_type \in {"default", "input", "output"} :
            AddEdge(c_nodes, c_id, o_id, edge_type)
    \/ \E node_ids \in IdLists : AddUnaries("V", node_ids)
    \/ \E node_ids \in IdLists, state \in {0, 2} : ConditionOn("V", node_ids, state)
    \/ \E seed \in Seeds : Finalize(seed)
    \/ DoMessagePassing

Spec == Init /\ [][Next]_vars

\* ------------------------------------------------- properties of the build

\* The calls of the build phase, as steps.
EdgeRoles == {"default", "input", "output"}
SomeCreateNodes == \E g \in Groups, k \in 1 .. MaxNodes : g \in Range(graph.nodes) /\ CreateNodes(g, k)
SomeAddEdge ==
    \E c_nodes \in VarGroups, c_id \in 0 .. MaxNodes - 1, o_id \in 0 .. MaxNodes - 1,
       edge_type \in EdgeRoles : AddEdge(c_nodes, c_id, o_id, edge_type)
SomeUnaryCall ==
    /\ "V" \in Range(graph.nodes)
    /\ \E node_ids \in IdLists :
          \/ AddUnaries("V", node_ids)
          \/ \E state \in {0, 2} : ConditionOn("V", node_ids, state)
SomeFinalize == \E seed \in Seeds : Finalize(seed)

\* What the build phase fixes: node counts, degrees, max_degree, state counts,
\* the rows of the edge table in use, the unary state.
Topology(cs) ==
    [c \in DOMAIN cs |-> [num_entries |-> cs[c].num_entries,
                          degree |-> [i \in 0 .. cs[c].num_entries - 1 |-> cs[c].degree[i]],
                          max_degree |-> cs[c].max_degree,
                          num_states |-> cs[c].num_states]]
LogicalEdges(e) ==
    [key \in DOMAIN e.edge_hash |->
        [r \in 0 .. e.edge_hash_count[key] - 1 |-> e.edge_hash[key][r]]]
UnaryState(gs) == [g \in VarGroups |-> gs[g].nodes_params]

\* C1: once finalize() has succeeded, create_nodes on a scheduled group, add_edge,
\* and add_unaries / condition_on on a scheduled variable group each fail and
\* leave node counts, degrees, max_degree, the edge table and the unary state
\* as they were.
C1_FinalizedRejectsConstruction ==
    [][(graph.is_finalized /\ (SomeCreateNodes \/ SomeAddEdge \/ SomeUnaryCall))
        => /\ exc' # "none"
           /\ Topology(chunks') = Topology(chunks)
           /\ LogicalEdges(edge_info') = LogicalEdges(edge_info)
           /\ UnaryState(grps') = UnaryState(grps)]_vars

\* C2: finalize() fails when no group is scheduled; a finalize() call made after
\* one has succeeded fails, and the graph stays finalized; the graph becomes
\* finalized only by a finalize() call that succeeds; do_message_passing() on a
\* graph that is not finalized fails and changes no message, no belief, no streak
\* and enters no iteration.
C2_LifecycleOneWay ==
    [][/\ (graph.nodes = <<>> /\ SomeFinalize) => (exc' # "none" /\ ~graph'.is_finalized)
       /\ (graph.is_finalized /\ SomeFinalize) => exc' # "none"
       /\ graph.is_finalized => graph'.is_finalized
       /\ (~graph.is_finalized /\ graph'.is_finalized) => (SomeFinalize /\ exc' = "none")
       /\ (~graph.is_finalized /\ DoMessagePassing)
            => /\ exc' # "none"
               /\ chunks' = chunks /\ grps' = grps /\ graph' = graph /\ frame' = frame]_vars

\* A second finalize() call has been made on a finalized graph, and has failed.
C2_Witness == hist.raised_by = "finalize" /\ graph.is_finalized

\* The accepted edges on node i of chunk c, and the slot each was given there.
EdgesOn(c, i) ==
    {k \in 1 .. Len(hist.edges) :
        IF c[2] = "vars" THEN hist.edges[k].c_nodes = c[1] /\ hist.edges[k].c_id = i
        ELSE hist.edges[k].edge_type = c[2] /\ hist.edges[k].o_id = i}
SlotOn(c, k) == IF c[2] = "vars" THEN hist.edges[k].c_loc ELSE hist.edges[k].o_loc
MaxOfSet(S) == IF S = {} THEN 0 ELSE CHOOSE m \in S : \A x \in S : x <= m

MaxIters == 3

\* Graphs built by a client: the nodes created in each group, the add_edge
\* calls <<c_nodes, c_id, o_id, edge_type>>, the add_unaries calls
\* <<node_ids, rows>> on V, and the add_nodes_to_schedule calls, in order.
PottsChain ==
    [f |-> NewPottsNodes(PottsAlpha, "sum"), nodes |-> [V |-> 3, W |-> 0, F |-> 2],
     edges |-> << <<"V", 0, 0, "default">>, <<"V", 1, 0, "default">>,
                  <<"V", 1, 1, "default">>, <<"V", 2, 1, "default">> >>,
     unaries |-> <<>>, schedule |-> <<"V", "F">>]
PottsStar ==
    [f |-> NewPottsNodes(PottsAlpha, "sum"), nodes |-> [V |-> 3, W |-> 0, F |-> 2],
     edges |-> << <<"V", 0, 0, "default">>, <<"V", 1, 0, "default">>,
                  <<"V", 0, 1, "default">>, <<"V", 2, 1, "default">> >>,
     unaries |-> << << <<0, 1, 2>>, << << <<3, 4>>, <<1, 4>> >>, << <<1, 4>>, <<3, 4>> >>,
                                       << <<1, 2>>, <<1, 2>> >> >> >> >>,
     schedule |-> <<"F", "V">>]
PottsPair ==
    [f |-> NewPottsNodes(PottsAlpha, "sum"), nodes |-> [V |-> 0, W |-> 2, F |-> 1],
     edges |-> << <<"W", 0, 0, "default">>, <<"W", 1, 0, "default">> >>,
     unaries |-> <<>>, schedule |-> <<"W", "F">>]
CatPair ==
    [f |-> NewCatNodes(CatProbs, "sum"), nodes |-> [V |-> 2, W |-> 0, F |-> 1],
     edges |-> << <<"V", 0, 0, "input">>, <<"V", 1, 0, "output">> >>,
     unaries |-> << << <<1>>, << << <<1, 4>>, <<3, 4>> >> >> >> >>,
     schedule |-> <<"V", "F">>]
WeakAlpha == <<1, 10>>
PottsWeakChain ==
    [PottsChain EXCEPT !.f = NewPottsNodes(WeakAlpha, "sum"), !.schedule = <<"F", "V">>]
RunScripts ==
    {PottsChain, [PottsChain EXCEPT !.schedule = <<"F", "V">>], PottsWeakChain, PottsStar,
     PottsPair, CatPair, [CatPair EXCEPT !.schedule = <<"F", "V">>]}

\* The bp_params given to BpGraph: damped runs of one iteration, undamped runs of
\* up to MaxIters iterations.
Tols == {Zero, <<1, 50>>, One}
RunParams ==
    {[iters |-> 1, damp |-> <<4, 5>>, streak_lim |-> 1, tol |-> <<1, 10>>]}
    \cup {[iters |-> i, damp |-> Zero, streak_lim |-> l, tol |-> t] :
            i \in 0 .. MaxIters, l \in 0 .. 2, t \in Tols}
RunSeeds == {0, 60, 178}

RECURSIVE CreateAll(_, _, _)
CreateAll(w, gs, nodes) ==
    IF gs = <<>> \/ ~Ok(w) THEN w
    ELSE Bind(IF nodes[Head(gs)] > 0 THEN Nodes_create_nodes(w, Head(gs), nodes[Head(gs)])
              ELSE w,
              LAMBDA w1 : CreateAll(w1, Tail(gs), nodes))

RECURSIVE AddEdges(_, _)
AddEdges(w, edges) ==
    IF edges = <<>> \/ ~Ok(w) THEN w
    ELSE Bind(BpGraph_add_edge(w, Head(edges)[1], Head(edges)[2], "F", Head(edges)[3],
                               Head(edges)[4]),
              LAMBDA w1 : AddEdges(w1, Tail(edges)))

RECURSIVE AddUnariesAll(_, _)
AddUnariesAll(w, calls) ==
    IF calls = <<>> \/ ~Ok(w) THEN w
    ELSE Bind(VarNodes_add_unaries(w, "V", Head(calls)[1], Head(calls)[2], FALSE),
              LAMBDA w1 : AddUnariesAll(w1, Tail(calls)))

RECURSIVE ScheduleAll(_, _)
ScheduleAll(w, gs) ==
    IF gs = <<>> THEN w
    ELSE Bind(BpGraph_add_nodes_to_schedule(w, Head(gs)),
              LAMBDA w1 : ScheduleAll(w1, Tail(gs)))

\* The world a script leaves: the constructors, then its calls, then finalize().
BuildGraph(sc, bp, seed) ==
    Bind([chunks |-> ChunksFor(sc.f),
          grps |-> [g \in Groups |-> IF g = "F" THEN sc.f
                                     ELSE NewNodes("VarNodes", <<>>, NumStates(g))],
          edge_info |-> NewGraphEdgeInfo, graph |-> NewBpGraph(bp), frame |-> IdleFrame,
          exc |-> "none"], LAMBDA w0 :
    Bind(CreateAll(w0, <<"V", "W", "F">>, sc.nodes), LAMBDA w1 :
    Bind(AddEdges(w1, sc.edges), LAMBDA w2 :
    Bind(AddUnariesAll(w2, sc.unaries), LAMBDA w3 :
    Bind(ScheduleAll(w3, sc.schedule), LAMBDA w4 : BpGraph_finalize(w4, seed))))))

\* The edges of a script as the client sees them: the two chunks, the two nodes,
\* and at each node the number of edges the script gave it before this one.
ScriptEdges(edges) ==
    {[vc |-> <<edges[k][1], "vars">>, c_id |-> edges[k][2],
      c_loc |-> Cardinality({j \in 1 .. k - 1 : edges[j][1] = edges[k][1]
                                               /\ edges[j][2] = edges[k][2]}),
      fc |-> <<"F", edges[k][4]>>, o_id |-> edges[k][3],
      o_loc |-> Cardinality({j \in 1 .. k - 1 : edges[j][4] = edges[k][4]
                                               /\ edges[j][3] = edges[k][3]})] :
        k \in 1 .. Len(edges)}

\* The incoming messages of every chunk, and the beliefs get_beliefs() gives for
\* the scheduled VarNodes objects.
MsgsIn(cs) == [c \in DOMAIN cs |-> cs[c].msgs_in]
ScheduledVars(w) == {g \in Range(w.graph.nodes) : w.grps[g].cls = "VarNodes"}
BeliefsNow(w) == [g \in ScheduledVars(w) |-> VarNodes_update_beliefs(w, g)]
MaxOverVars(f) ==
    IF DOMAIN f = {} THEN Zero
    ELSE CHOOSE m \in Range(f) : \A x \in Range(f) : RLe(x, m)

\* What an observer of a run keeps: the edges of the graph, the calls made, the
\* streak at the entry of the current call, and for the current call the
\* iterations ended, the messages at the start of the current iteration, the
\* messages computed and the chunks that delivered in it, the groups computed in
\* it, the beliefs at the end of the last iteration, the number of consecutive
\* iterations (from iteration 1 on) whose largest belief change was within tol,
\* and the number of iterations that ended with that number at streak_lim or above.
RunInit ==
    \E sc \in RunScripts, bp \in RunParams, seed \in RunSeeds :
        \E w \in {BuildGraph(sc, bp, seed)} :
            /\ Ok(w)
            /\ chunks = w.chunks /\ grps = w.grps /\ edge_info = w.edge_info
            /\ graph = w.graph /\ frame = w.frame /\ exc = w.exc
            /\ hist = [edges |-> ScriptEdges(sc.edges), runs |-> 0, entry_streak |-> 0,
                       iters_done |-> 0, iter_start |-> MsgsIn(w.chunks), sent |-> <<>>,
                       delivered |-> {}, computed |-> <<>>, bel_prev |-> <<>>,
                       last_diff |-> Zero, within_tol |-> 0, hits |-> 0, resets |-> 0]

InCall(pc) == exc = "none" /\ frame.pc = pc

\* graph.do_message_passing() is called: up to MaxRuns times, once when damp # 0
\* (the exact rationals of a second damped call do not fit 32-bit integers)
Call ==
    /\ InCall("idle")
    /\ hist.runs < (IF graph.bp_params.damp = Zero THEN MaxRuns ELSE 1)
    /\ \E w \in {DMP_Call(World)} :
          /\ Commit(w)
          /\ hist' = [hist EXCEPT !.runs = @ + 1, !.entry_streak = graph.streak_count,
                                  !.iters_done = 0, !.iter_start = MsgsIn(chunks),
                                  !.sent = <<>>, !.delivered = {}, !.computed = <<>>,
                                  !.bel_prev = <<>>, !.last_diff = Zero, !.within_tol = 0,
                                  !.hits = 0, !.resets = 0]

\* msgs_hash = chunk.compute_messages() for the next group of the schedule
Compute ==
    /\ InCall("compute")
    /\ \E w \in {DMP_Compute(World)} :
          /\ Commit(w)
          /\ hist' = [hist EXCEPT
                !.computed = Append(@, graph.nodes[frame.pos]),
                !.sent = IF Ok(w)
                         THEN [c \in DOMAIN @ \cup {<<graph.nodes[frame.pos], k>> :
                                                      k \in DOMAIN w.frame.msgs_hash} |->
                                  IF c[1] = graph.nodes[frame.pos] THEN w.frame.msgs_hash[c[2]]
                                  ELSE @[c]]
                         ELSE @]

\* self._distribute_messages(chunk.message_chunks[key], msgs_hash[key]) for the
\* next key
Distribute ==
    /\ InCall("distribute")
    /\ \E w \in {DMP_Distribute(World)} :
          /\ Commit(w)
          /\ hist' = [hist EXCEPT
                !.delivered = @ \cup {<<graph.nodes[frame.pos], Head(frame.keys)>>}]

\* the end of an iteration: the convergence check, the streak, the break or the
\* snapshot of the beliefs
EndIteration ==
    /\ InCall("end_iter")
    /\ \E w \in {DMP_EndIteration(World)} :
          /\ Commit(w)
          /\ \E bel \in {BeliefsNow(World)} :
             \E diff \in {IF hist.iters_done = 0 THEN Zero
                          ELSE MaxOverVars([g \in DOMAIN bel |->
                                               MaxAbsDiff(hist.bel_prev[g], bel[g])])} :
             \E n \in {IF hist.iters_done > 0 /\ RLe(diff, graph.bp_params.tol)
                       THEN hist.within_tol + 1 ELSE 0} :
                hist' = [hist EXCEPT
                    !.iters_done = @ + 1, !.iter_start = MsgsIn(chunks), !.sent = <<>>,
                    !.delivered = {}, !.computed = <<>>, !.bel_prev = bel,
                    !.last_diff = diff, !.within_tol = n,
                    !.hits = IF n >= graph.bp_params.streak_lim THEN @ + 1 ELSE @,
                    !.resets = IF n = 0 /\ hist.within_tol > 0 THEN @ + 1 ELSE @]

\* the loop is left: prepare_msgs_for_computation() on every group, and the return
Return ==
    /\ InCall("return")
    /\ \E w \in {DMP_Return(World)} :
          /\ Commit([w EXCEPT !.frame = IF Ok(w) THEN IdleFrame ELSE @])
          /\ UNCHANGED hist

RunNext == Call \/ Compute \/ Distribute \/ EndIteration \/ Return

RunSpec == RunInit /\ [][RunNext]_vars

\* A call that has started goes on: Python runs the loop to its end. The steps
\* of the loop body are total on their program points, so a step of the body is
\* enabled exactly in the states of InBody, and weak fairness of LoopBody is
\* written with InBody for ENABLED <<LoopBody>>_vars.
LoopBody == Compute \/ Distribute \/ EndIteration
InBody == exc = "none" /\ frame.pc \in {"compute", "distribute", "end_iter"}
FairRunSpec ==
    RunSpec /\ WF_vars(Return) /\ ([]<>~InBody \/ []<><<LoopBody>>_vars)

\* --------------------------------------------------- properties of the runs

\* The edge of the graph, if any, that brings the messages of chunk sc to slot d
\* of node n of chunk P, and the slot and node of sc it brings them from.
EdgesInto(sc, P, d, n) ==
    {e \in hist.edges :
        \/ e.vc = sc /\ e.fc = P /\ e.o_loc = d /\ e.o_id = n
        \/ e.fc = sc /\ e.vc = P /\ e.c_loc = d /\ e.c_id = n}
SrcSlot(e, sc) == IF e.vc = sc THEN e.c_loc ELSE e.o_loc
SrcNode(e, sc) == IF e.vc = sc THEN e.c_id ELSE e.o_id

\* damp * old + (1 - damp) * new
Damped(old, new) ==
    RAdd(RMul(graph.bp_params.damp, old), RMul(RSub(One, graph.bp_params.damp), new))

\* The incoming messages of chunk P after chunk sc has delivered msgs into old.
Delivered(old, sc, msgs, P) ==
    Arr3(old.shape, LAMBDA d, s, n :
        IF EdgesInto(sc, P, d, n) = {} THEN At3(old, d, s, n)
        ELSE LET e == CHOOSE x \in EdgesInto(sc, P, d, n) : TRUE
             IN  Damped(At3(old, d, s, n), At3(msgs, SrcSlot(e, sc), s, SrcNode(e, sc))))

\* C3: a distribute step of chunk sc with messages msgs leaves in every chunk P
\* damp * old + (1 - damp) * msgs[source] in the row of each edge from sc to P,
\* and leaves every other row of P, and everything else of every chunk, as it was.
C3_DampedDelivery ==
    [][(frame.pc = "distribute" /\ exc = "none" /\ exc' = "none") =>
        LET sc == <<graph.nodes[frame.pos], Head(frame.keys)>>
            msgs == frame.msgs_hash[Head(frame.keys)]
        IN  \A P \in DOMAIN chunks :
                chunks'[P] = [chunks[P] EXCEPT
                                !.msgs_in = Delivered(chunks[P].msgs_in, sc, msgs, P)]]_vars

\* A damped delivery has changed a chunk that has a padded slot.
C3_Witness ==
    /\ graph.bp_params.damp = <<4, 5>>
    /\ hist.delivered # {}
    /\ \E P \in DOMAIN chunks :
          /\ chunks[P].msgs_in # hist.iter_start[P]
          /\ \E n \in 0 .. chunks[P].num_entries - 1 : chunks[P].degree[n] < chunks[P].max_degree

\* The chunks of the senders that have delivered in the current iteration into
\* slot d of node n of P.
DeliveredInto(P, d, n) == {sc \in hist.delivered : EdgesInto(sc, P, d, n) # {}}

\* C4: the groups are computed in the order of the schedule; at every point of an
\* iteration each row holds the delivery of its sender if the sender has
\* delivered in this iteration and its value at the start of the iteration if
\* not; a compute step computes every role of the group from the messages as
\* they are then, and delivers nothing.
C4_GaussSeidel ==
    /\ [](exc = "none" =>
            /\ hist.computed = SubSeq(graph.nodes, 1, Len(hist.computed))
            /\ \A P \in DOMAIN chunks :
                  chunks[P].msgs_in =
                    Arr3(chunks[P].msgs_in.shape, LAMBDA d, s, n :
                        IF DeliveredInto(P, d, n) = {} THEN At3(hist.iter_start[P], d, s, n)
                        ELSE LET sc == CHOOSE x \in DeliveredInto(P, d, n) : TRUE
                                 e == CHOOSE x \in EdgesInto(sc, P, d, n) : TRUE
                             IN  Damped(At3(hist.iter_start[P], d, s, n),
                                        At3(hist.sent[sc], SrcSlot(e, sc), s, SrcNode(e, sc)))))
    /\ [][(frame.pc = "compute" /\ exc = "none" /\ exc' = "none") =>
            /\ chunks' = chunks
            /\ frame'.pos = frame.pos
            /\ DOMAIN frame'.msgs_hash = grps[graph.nodes[frame.pos]].roles
            /\ frame'.msgs_hash =
                  Nodes_compute_messages(World, graph.nodes[frame.pos]).msgs_hash]_vars

\* The second group of the schedule has computed messages that differ from those
\* the messages of the start of the iteration give.
C4_Witness ==
    /\ exc = "none" /\ frame.pc = "distribute" /\ frame.pos = 2
    /\ frame.msgs_hash #
          Nodes_compute_messages(
              [World EXCEPT !.chunks = [c \in DOMAIN chunks |->
                                          [chunks[c] EXCEPT !.msgs_in = hist.iter_start[c]]]],
              graph.nodes[2]).msgs_hash

\* C5: a call that has started returns; at the end of iteration k >= 1 max_diff
\* is the largest change of a belief of a scheduled VarNodes object since the end
\* of iteration k - 1; the streak is the number of consecutive iterations, up to
\* this one, with max_diff <= tol, so 0 after an iteration with max_diff > tol;
\* the loop stops at the end of the first iteration that leaves the streak at
\* streak_lim or above, once, and otherwise after iters iterations.
C5_StopRule ==
    /\ [](exc = "none" =>
            /\ hist.hits <= 1
            /\ hist.iters_done <= graph.bp_params.iters
            /\ frame.pc \in {"compute", "distribute", "end_iter"}
                  => (hist.hits = 0 /\ hist.iters_done = frame.itt)
            /\ frame.pc = "return"
                  => IF frame.broke
                     THEN hist.hits = 1 /\ hist.within_tol >= graph.bp_params.streak_lim
                     ELSE hist.hits = 0 /\ hist.iters_done = graph.bp_params.iters)
    /\ [][(frame.pc = "end_iter" /\ exc = "none" /\ exc' = "none") =>
            /\ frame.itt >= 1 => frame'.max_diff = hist'.last_diff
            /\ frame'.is_converged
                  = (frame.itt >= 1 /\ RLe(hist'.last_diff, graph.bp_params.tol))
            /\ graph'.streak_count = hist'.within_tol
            /\ RLt(graph.bp_params.tol, hist'.last_diff) => graph'.streak_count = 0
            /\ (frame'.pc = "return" /\ frame'.broke)
                  = (hist'.within_tol >= graph.bp_params.streak_lim)
            /\ ~frame'.broke =>
                  IF frame.itt + 1 < graph.bp_params.iters
                  THEN frame'.pc = "compute" /\ frame'.itt = frame.itt + 1 /\ frame'.pos = 1
                  ELSE frame'.pc = "return"]_vars
    /\ (frame.pc # "idle") ~> (frame.pc = "idle" \/ exc # "none")

\* A call has stopped on convergence before the cap, in a run whose streak had
\* been reset by an iteration with max_diff > tol.
C5_Witness ==
    /\ exc = "none" /\ frame.pc = "return" /\ frame.broke
    /\ graph.bp_params.streak_lim >= 1
    /\ hist.iters_done < graph.bp_params.iters

\* C6: iteration 0 of a call gives max_diff = 0, is not counted as converged and
\* leaves the streak at 0, whatever the streak was when the call was made; with
\* streak_lim >= 1 a call that stops on convergence stops at iteration
\* streak_lim or later.
C6_FirstIteration ==
    /\ []((exc = "none" /\ frame.pc = "return" /\ frame.broke
              /\ graph.bp_params.streak_lim >= 1)
            => frame.itt >= graph.bp_params.streak_lim)
    /\ [][(frame.pc = "end_iter" /\ frame.itt = 0 /\ exc = "none" /\ exc' = "none") =>
            /\ frame'.max_diff = Zero
            /\ ~frame'.is_converged
            /\ graph'.streak_count = 0]_vars

\* Iteration 0 of a call made with a streak left by the call before has ended.
C6_Witness ==
    /\ exc = "none"
    /\ hist.runs = 2 /\ hist.entry_streak >= 1
    /\ hist.iters_done = 1
    /\ graph.streak_count = 0

\* ------------------------------------------- sequences of add_unaries calls

\* The unary_vals rows a call may give a node, and the id lists it may name.
UnaryRows(S) ==
    IF S = 2 THEN {<<<<3, 1>>, <<1, 1>>>>, <<<<1, 4>>, <<3, 4>>>>, <<One, Zero>>}
    ELSE {<<One, One, <<2, 1>>>>, <<One, Zero, Zero>>}
UnaryIdLists == {<<0>>, <<1>>, <<0, 1>>, <<1, 0>>, <<0, 0>>, <<1, 2>>}

\* What the documentation of add_unaries makes of one row: normalised, clipped,
\* normalised again.
RowSum(r) == RSum([j \in 0 .. Len(r) - 1 |-> r[j + 1]], Len(r))
RowNorm(r) == [j \in 1 .. Len(r) |-> RDiv(r[j], RowSum(r))]
Prepared(r) == RowNorm([j \in 1 .. Len(r) |-> UnaryClip(RowNorm(r)[j])])

\* The state a client has built when it starts adding unaries: one VarNodes
\* object with k nodes.  The observer keeps the group, the number of calls, the
\* prepared rows added for each node, and the arguments of the last call.
UnaryInit ==
    \E g \in VarGroups, k \in 1 .. MaxNodes + 1 :
        \E w0 \in {[chunks |-> ChunksFor(NewPottsNodes(PottsAlpha, "sum")),
                    grps |-> [x \in Groups |->
                                IF x = "F" THEN NewPottsNodes(PottsAlpha, "sum")
                                ELSE NewNodes("VarNodes", <<>>, NumStates(x))],
                    edge_info |-> NewGraphEdgeInfo,
                    graph |-> NewBpGraph(CHOOSE bp \in BpParamsChoices : TRUE),
                    frame |-> IdleFrame, exc |-> "none"]} :
        \E w \in {Nodes_create_nodes(w0, g, k)} :
            /\ chunks = w.chunks /\ grps = w.grps /\ edge_info = w.edge_info
            /\ graph = w.graph /\ frame = w.frame /\ exc = w.exc
            /\ hist = [g |-> g, calls |-> 0, added |-> [n \in 0 .. k - 1 |-> <<>>],
                       last |-> [node_ids |-> <<>>, rows |-> <<>>, as_list |-> FALSE]]

RECURSIVE RowsFor(_, _, _)
\* The prepared rows a call adds for node n, in the order of the call.
RowsFor(node_ids, rows, n) ==
    IF node_ids = <<>> THEN <<>>
    ELSE (IF Head(node_ids) = n THEN <<Prepared(Head(rows))>> ELSE <<>>)
         \o RowsFor(Tail(node_ids), Tail(rows), n)

\* nodes.add_unaries(node_ids, unary_vals): unary_vals an ndarray of one row per
\* id, or (as_list) the list of these rows
UnaryCall(node_ids, rows, as_list) ==
    /\ exc = "none"
    /\ hist.calls < MaxUnaryCalls
    /\ \A i \in 1 .. Len(node_ids) : node_ids[i] < chunks[<<hist.g, "vars">>].num_entries
    /\ \E w \in {VarNodes_add_unaries(World, hist.g, node_ids, rows, as_list)} :
          /\ Commit(w)
          /\ hist' = [hist EXCEPT
                !.calls = @ + 1,
                !.added = [n \in DOMAIN @ |-> @[n] \o RowsFor(node_ids, rows, n)],
                !.last = [node_ids |-> node_ids, rows |-> rows, as_list |-> as_list]]

UnaryNext ==
    \E node_ids \in UnaryIdLists, as_list \in BOOLEAN :
        \E rows \in [1 .. Len(node_ids) -> UnaryRows(NumStates(hist.g))] :
            UnaryCall(node_ids, rows, as_list)

UnarySpec == UnaryInit /\ [][UnaryNext]_vars

\* ------------------------------------------------ properties of the unaries

REq(a, b) == a[1] * b[2] = b[1] * a[2]
UnaryParams == grps[hist.g].nodes_params
\* exp of the log potential stored for node n and state s: the entries of
\* log_unary at the positions of n in unary_idx, summed.
StoredFor(np, n, s) ==
    RProd([p \in DOMAIN np["unary_idx"] |->
              IF np["unary_idx"][p] = n THEN Exp(At3(np["log_unary"], 0, s, p)) ELSE One],
          FnLen(np["unary_idx"]))
\* exp of the sum of the logs of the rows added for node n, at state s.
AddedFor(n, s) ==
    RProd([i \in 0 .. Len(hist.added[n]) - 1 |-> hist.added[n][i + 1][s + 1]],
          Len(hist.added[n]))

\* C9: after any sequence of add_unaries calls, the log potential stored for a
\* node is the sum of the logs of the prepared unaries added for it (so that a
\* call for one node leaves the potentials of the others as they were).
C9_UnariesSumPerNode ==
    (exc = "none" /\ hist.calls > 0) =>
        /\ {"unary_idx", "log_unary"} \subseteq DOMAIN UnaryParams
        /\ \A n \in DOMAIN hist.added :
              /\ (hist.added[n] # <<>>) = (n \in Range(UnaryParams["unary_idx"]))
              /\ \A s \in 0 .. NumStates(hist.g) - 1 :
                    REq(StoredFor(UnaryParams, n, s), AddedFor(n, s))

\* C10: an add_unaries call after an earlier one, for ids that carry no unary
\* yet, returns normally; unary_idx is the old unary_idx followed by the ids,
\* log_unary the old log_unary followed by the logs of their prepared rows, and
\* no id occurs twice in unary_idx.
C10_FreshIdsAppended ==
    [][(/\ hist'.calls = hist.calls + 1
        /\ exc = "none"
        /\ "log_unary" \in DOMAIN UnaryParams
        /\ LET l == hist'.last IN
            /\ ~l.as_list \/ Len(l.node_ids) = 1
            /\ \A i \in 1 .. Len(l.node_ids) :
                  /\ l.node_ids[i] \notin Range(UnaryParams["unary_idx"])
                  /\ \A j \in 1 .. Len(l.node_ids) : l.node_ids[i] = l.node_ids[j] => i = j)
       => LET l == hist'.last
              old == UnaryParams
              new == grps'[hist.g].nodes_params
              K0 == FnLen(old["unary_idx"])
              K == Len(l.node_ids)
          IN  /\ exc' = "none"
              /\ new["unary_idx"] =
                    [p \in 0 .. K0 + K - 1 |->
                        IF p < K0 THEN old["unary_idx"][p] ELSE l.node_ids[p - K0 + 1]]
              /\ new["log_unary"].shape = <<1, NumStates(hist.g), K0 + K>>
              /\ \A p \in 0 .. K0 + K - 1, s \in 0 .. NumStates(hist.g) - 1 :
                    IF p < K0
                    THEN At3(new["log_unary"], 0, s, p) = At3(old["log_unary"], 0, s, p)
                    ELSE REq(Exp(At3(new["log_unary"], 0, s, p)),
                             Prepared(l.rows[p - K0 + 1])[s + 1])
              /\ \A p, q \in DOMAIN new["unary_idx"] :
                    new["unary_idx"][p] = new["unary_idx"][q] => p = q]_vars

\* ------------------------------------------------ calls of condition_on

\* The id lists and the states a condition_on call may name.
CondIdLists == {<<0>>, <<1>>, <<0, 1>>, <<1, 0>>, <<0, 0>>}
CondStates == 0 .. 3

\* nodes.condition_on(node_ids, state), after any add_unaries or condition_on
\* calls; the observer keeps for each listed node the one-hot row the call names
CondCall(node_ids, state) ==
    /\ exc = "none"
    /\ hist.calls < MaxUnaryCalls
    /\ \A i \in 1 .. Len(node_ids) : node_ids[i] < chunks[<<hist.g, "vars">>].num_entries
    /\ \E w \in {VarNodes_condition_on(World, hist.g, node_ids, state)} :
          /\ Commit(w)
          /\ \E rows \in {[i \in 1 .. Len(node_ids) |->
                              OneHot(NumStates(hist.g), state)]} :
                hist' = [hist EXCEPT
                    !.calls = @ + 1,
                    !.added = [n \in DOMAIN @ |->
                                  IF state < NumStates(hist.g)
                                  THEN @[n] \o RowsFor(node_ids, rows, n) ELSE @[n]],
                    !.last = [node_ids |-> node_ids, rows |-> rows, as_list |-> TRUE]]

CondNext ==
    \/ UnaryNext
    \/ \E node_ids \in CondIdLists, state \in CondStates : CondCall(node_ids, state)

CondSpec == UnaryInit /\ [][CondNext]_vars

\* exp of the log potential stored for node n and state s, 1 for a group that
\* has no unary yet.
StoredOrOne(np, n, s) == IF "unary_idx" \in DOMAIN np THEN StoredFor(np, n, s) ELSE One

\* C11: condition_on(ids, s) with s < S returns normally and multiplies the
\* potential stored for each listed node by the clipped one-hot row at s, once
\* per occurrence in ids, and leaves the potentials of the other nodes as they
\* were; with s >= S it fails and leaves the unary state as it was.
C11_ConditionOnAttaches ==
    [][\A node_ids \in CondIdLists, state \in CondStates :
         CondCall(node_ids, state) =>
            LET S == NumStates(hist.g)
                hot == Prepared(OneHot(S, state))
                new == grps'[hist.g].nodes_params
            IN  IF state < S
                THEN /\ exc' = "none"
                     /\ \A n \in DOMAIN hist.added, s \in 0 .. S - 1 :
                           StoredOrOne(new, n, s) =
                              RMul(StoredOrOne(UnaryParams, n, s),
                                   RProd([i \in 0 .. Len(node_ids) - 1 |->
                                             IF node_ids[i + 1] = n THEN hot[s + 1] ELSE One],
                                         Len(node_ids)))
                ELSE exc' = "AssertionError" /\ grps' = grps]_vars

\* ------------------------------------- properties of the computed messages

\* The unary potential attached to node n of a VarNodes object at state s, 1
\* where none is attached: exp of the stored log potential.
UnaryAt(np, n, s) ==
    IF "log_unary" \notin DOMAIN np THEN One
    ELSE IF "unary_idx" \in DOMAIN np THEN StoredFor(np, n, s)
    ELSE Exp(At3(np["log_unary"], 0, s, n))

\* unary[s, n] times the product of the incoming messages of node n at state s
\* over the slots other than d.
VarTarget(np, msgs, d, s, n) ==
    RMul(UnaryAt(np, n, s),
         RProd([k \in 0 .. msgs.shape[1] - 1 |->
                   IF k = d THEN One ELSE At3(msgs, k, s, n)], msgs.shape[1]))

\* C12: the message a VarNodes object computes for node n on slot d is
\* proportional, over the states, to the node's unary times the product of its
\* incoming messages on the other slots, whatever the max degree of the group.
C12_VarMessageIncludesUnary ==
    [][(frame.pc = "compute" /\ exc = "none" /\ exc' = "none"
            /\ grps[graph.nodes[frame.pos]].cls = "VarNodes") =>
        LET g == graph.nodes[frame.pos]
            msgs == chunks[<<g, "vars">>].msgs_in
            out == VarNodes_do_compute_messages(World, g).vars
            T(d, s, n) == VarTarget(grps[g].nodes_params, msgs, d, s, n)
        IN  /\ out.shape = msgs.shape
            /\ frame'.msgs_hash = [vars |-> MessageChunk_clamp_messages(out)]
            /\ \A n \in 0 .. msgs.shape[3] - 1 :
               \A d \in 0 .. chunks[<<g, "vars">>].degree[n] - 1 :
               \A s1, s2 \in 0 .. msgs.shape[2] - 1 :
                  RMul(At3(out, d, s1, n), T(d, s2, n))
                     = RMul(At3(out, d, s2, n), T(d, s1, n))]_vars

\* ------------------ runs over the initialisation strategies and the families

\* The chunks the constructors create: a VarNodes object gives its chunk the
\* msgs_init_strat of its nodes_params, a NoisyOrNodes object gives its chunks
\* their pad values.
ChunksWith(f, strat) ==
    [c \in DOMAIN ChunksFor(f) |->
        IF c[2] = "vars" THEN [ChunksFor(f)[c] EXCEPT !.msgs_init_strat = strat]
        ELSE IF f.cls = "NoisyOrNodes"
             THEN [ChunksFor(f)[c] EXCEPT !.pad_msg_val = NoisyOrPad(c[2])]
             ELSE ChunksFor(f)[c]]

\* The world the calls of a script leave, before finalize(), when the VarNodes
\* objects are made with strat.
Built(sc, bp, strat) ==
    Bind([chunks |-> ChunksWith(sc.f, strat),
          grps |-> [g \in Groups |-> IF g = "F" THEN sc.f
                                     ELSE NewNodes("VarNodes", <<>>, NumStates(g))],
          edge_info |-> NewGraphEdgeInfo, graph |-> NewBpGraph(bp), frame |-> IdleFrame,
          exc |-> "none"], LAMBDA w0 :
    Bind(CreateAll(w0, <<"V", "W", "F">>, sc.nodes), LAMBDA w1 :
    Bind(AddEdges(w1, sc.edges), LAMBDA w2 :
    Bind(AddUnariesAll(w2, sc.unaries), LAMBDA w3 : ScheduleAll(w3, sc.schedule)))))

\* The world a script leaves when the VarNodes objects are made with strat.
BuildWith(sc, bp, seed, strat) ==
    Bind(Built(sc, bp, strat), LAMBDA w4 : BpGraph_finalize(w4, seed))

\* Graphs with variable nodes that have no edge, and a graph of noisy-or factors.
UnaryExample ==
    [f |-> NewPottsNodes(PottsAlpha, "sum"), nodes |-> [V |-> 1, W |-> 0, F |-> 0],
     edges |-> <<>>,
     unaries |-> << << <<0>>, << << <<7, 10>>, <<3, 10>> >> >> >>,
                    << <<0>>, << << <<2, 5>>, <<3, 5>> >> >> >>,
                    << <<0>>, << << <<1, 5>>, <<4, 5>> >> >> >> >>,
     schedule |-> <<"V">>]
UnaryTwo ==
    [f |-> NewPottsNodes(PottsAlpha, "sum"), nodes |-> [V |-> 2, W |-> 0, F |-> 0],
     edges |-> <<>>,
     unaries |-> << << <<0, 1>>, << << <<3, 4>>, <<1, 4>> >>, << <<1, 4>>, <<3, 4>> >> >> >>,
                    << <<0>>, << << <<1, 4>>, <<3, 4>> >> >> >> >>,
     schedule |-> <<"V">>]
UnaryIsolated ==
    [f |-> NewPottsNodes(PottsAlpha, "sum"), nodes |-> [V |-> 3, W |-> 0, F |-> 1],
     edges |-> << <<"V", 0, 0, "default">>, <<"V", 1, 0, "default">> >>,
     unaries |-> << << <<2>>, << << <<1, 4>>, <<3, 4>> >> >> >> >>,
     schedule |-> <<"V", "F">>]
NoisyOrNet ==
    [f |-> NewNoisyOrNodes(<<1, 10>>, <<1, 2>>, "sum"), nodes |-> [V |-> 3, W |-> 0, F |-> 2],
     edges |-> << <<"V", 0, 0, "input">>, <<"V", 1, 0, "input">>, <<"V", 2, 0, "output">>,
                  <<"V", 1, 1, "input">> >>,
     unaries |-> <<>>, schedule |-> <<"V", "F">>]
\* Two nodes that get their unaries in one call, the ids in descending order /
\* one id twice.
UnaryReversed ==
    [UnaryTwo EXCEPT !.unaries =
        << << <<1, 0>>, << << <<3, 4>>, <<1, 4>> >>, << <<1, 3>>, <<2, 3>> >> >> >> >>]
UnaryRepeated ==
    [UnaryTwo EXCEPT !.unaries =
        << << <<0, 0>>, << << <<3, 4>>, <<1, 4>> >>, << <<1, 3>>, <<2, 3>> >> >> >> >>]
MsgScripts ==
    {UnaryExample, UnaryTwo, UnaryIsolated, NoisyOrNet, PottsChain, PottsStar, CatPair,
     UnaryReversed, UnaryRepeated}
MsgParams ==
    {[iters |-> 1, damp |-> <<4, 5>>, streak_lim |-> 1, tol |-> <<1, 10>>]}
    \cup {[iters |-> i, damp |-> Zero, streak_lim |-> l, tol |-> Zero] :
            i \in 0 .. MaxIters - 1, l \in 0 .. 2}
InitStrats == {"random", "uniform"}

RECURSIVE AddedRows(_, _)
\* The prepared rows the add_unaries calls of a script give node n, in order.
AddedRows(calls, n) ==
    IF calls = <<>> THEN <<>>
    ELSE RowsFor(Head(calls)[1], Head(calls)[2], n) \o AddedRows(Tail(calls), n)

\* The observer of a run, the rows added for each node of V, and the
\* nodes_params of V as the add_unaries calls left them, before finalize().
MsgInit ==
    \E sc \in MsgScripts, bp \in MsgParams, seed \in RunSeeds, strat \in InitStrats :
        \E w \in {BuildWith(sc, bp, seed, strat)} :
            /\ Ok(w)
            /\ chunks = w.chunks /\ grps = w.grps /\ edge_info = w.edge_info
            /\ graph = w.graph /\ frame = w.frame /\ exc = w.exc
            /\ hist = [edges |-> ScriptEdges(sc.edges), runs |-> 0, entry_streak |-> 0,
                       iters_done |-> 0, iter_start |-> MsgsIn(w.chunks), sent |-> <<>>,
                       delivered |-> {}, computed |-> <<>>, bel_prev |-> <<>>,
                       last_diff |-> Zero, within_tol |-> 0, hits |-> 0, resets |-> 0,
                       added |-> [n \in 0 .. sc.nodes["V"] - 1 |-> AddedRows(sc.unaries, n)],
                       stored |-> Built(sc, bp, strat).grps["V"].nodes_params]

MsgSpec == MsgInit /\ [][RunNext]_vars

\* -------------------------------------------- properties of the beliefs

\* The product of the rows at state s, and its share of the sum over the states.
ProdRows(rows, s) == RProd([i \in 0 .. Len(rows) - 1 |-> rows[i + 1][s + 1]], Len(rows))
NormProd(rows, s, S) ==
    RDiv(ProdRows(rows, s), RSum([k \in 0 .. S - 1 |-> ProdRows(rows, k)], S))

\* C13: the belief get_beliefs() gives for a node of V that has no edge is the
\* normalised product of the unaries added for it, at every point of a run; in
\* a graph whose variable nodes have no edge every iteration from iteration 1 on
\* ends with max_diff = 0 and counts as converged.
C13_IsolatedBelief ==
    /\ [](exc = "none" =>
            LET bel == VarNodes_update_beliefs(World, "V") IN
            \A n \in DOMAIN hist.added :
                chunks[<<"V", "vars">>].degree[n] = 0 =>
                    \A s \in 0 .. NumStates("V") - 1 :
                        At3(bel, 0, s, n) = NormProd(hist.added[n], s, NumStates("V")))
    /\ [][(frame.pc = "end_iter" /\ frame.itt >= 1 /\ exc = "none" /\ exc' = "none"
              /\ hist.edges = {})
            => (frame'.max_diff = Zero /\ frame'.is_converged)]_vars

\* ------------------------------------- properties of the stored messages

\* The chunks finalize() has finalised, and the points of a run at which no
\* iteration is under way: before a call, at the end of an iteration, after
\* the loop.
Finalised == {c \in DOMAIN chunks : chunks[c].finalized}
BetweenIterations == exc = "none" /\ frame.pc \in {"idle", "end_iter", "return"}
InRange(x) == RLe(MSG_MIN_VAL, x) /\ RLe(x, MSG_MAX_VAL)

\* C14: after finalize() and after every iteration, every entry of the messages
\* of every finalised chunk, real or padded slot, is in [_MSG_MIN_VAL, _MSG_MAX_VAL].
C14_MessagesInRange ==
    BetweenIterations =>
        \A c \in Finalised : \A i \in DOMAIN chunks[c].msgs_in.v :
            InRange(chunks[c].msgs_in.v[i])

\* |x - 1| <= 1e-6
NearOne(x) == Abs(x[1] - x[2]) <= x[2] \div 1000000

\* C15: after finalize() and after every iteration, the messages stored in
\* every real slot (d < degree[n]) of every finalised chunk sum to 1 over the
\* states, within 1e-6.
C15_RealSlotsNormalised ==
    BetweenIterations =>
        \A c \in Finalised : \A n \in 0 .. chunks[c].num_entries - 1 :
            \A d \in 0 .. chunks[c].degree[n] - 1 :
                NearOne(SumStates(chunks[c].msgs_in, d, n))

\* ------------------------------------- properties of the returned messages

\* The dictionary compute_messages returned, while it is being delivered.
Returned == IF exc = "none" /\ frame.pc = "distribute" THEN frame.msgs_hash ELSE <<>>

\* C16: every tensor compute_messages returns has each column along the state
\* axis summing to 1 (within 1e-6) and every entry in [MSG_MIN_VAL, MSG_MAX_VAL].
C16_ReturnedMessagesNormalised ==
    \A key \in DOMAIN Returned :
        LET msg == Returned[key]
        IN  /\ \A i \in DOMAIN msg.v : InRange(msg.v[i])
            /\ \A d \in 0 .. msg.shape[1] - 1, n \in 0 .. msg.shape[3] - 1 :
                   NearOne(SumStates(msg, d, n))

\* ------------------------------------------ properties of the padded slots

\* The slots of chunk c that no edge uses: <<d, n>> with d >= degree[n].
PaddedSlots(c) ==
    {dn \in (0 .. chunks[c].max_degree - 1) \X (0 .. chunks[c].num_entries - 1) :
        dn[1] >= chunks[c].degree[dn[2]]}

\* Entry s of the pad value of a finalised chunk.
PadAt(ch, s) == ch.pad_msg_val[BIx(s, Len(ch.pad_msg_val)) + 1]

\* C17: from finalize() on, through every compute and distribute step of every
\* iteration and whatever the initialisation strategy, every slot d >= degree[n]
\* of every finalised chunk holds the chunk's pad_msg_val.
C17_PaddedSlotsKeepPad ==
    \A c \in Finalised : \A dn \in PaddedSlots(c) :
        \A s \in 0 .. chunks[c].num_states - 1 :
            At3(chunks[c].msgs_in, dn[1], s, dn[2]) = PadAt(chunks[c], s)

\* A noisy-or graph built with the uniform strategy, after an iteration has
\* delivered messages into a variable chunk and a factor chunk that both have
\* padded slots.
C17_Witness ==
    /\ exc = "none" /\ hist.iters_done >= 1
    /\ grps["F"].cls = "NoisyOrNodes"
    /\ chunks[<<"V", "vars">>].msgs_init_strat = "uniform"
    /\ {<<"V", "vars">>, <<"F", "input">>} \subseteq hist.delivered
    /\ PaddedSlots(<<"V", "vars">>) # {} /\ PaddedSlots(<<"F", "input">>) # {}
    /\ chunks[<<"F", "input">>].pad_msg_val = <<One, Zero>>

\* ------------------------------------- finalisation and the layout switches

\* Graphs in which the factors of one group have different numbers of edges, or
\* all have a number their family does not take.
PottsMixed ==
    [PottsChain EXCEPT !.edges = << <<"V", 0, 0, "default">>, <<"V", 1, 0, "default">>,
                                   <<"V", 2, 1, "default">> >>]
PottsShort ==
    [PottsChain EXCEPT !.nodes = [V |-> 1, W |-> 0, F |-> 1],
                       !.edges = << <<"V", 0, 0, "default">> >>]
PottsWide ==
    [PottsChain EXCEPT !.nodes = [V |-> 3, W |-> 0, F |-> 1],
                       !.edges = << <<"V", 0, 0, "default">>, <<"V", 1, 0, "default">>,
                                    <<"V", 2, 0, "default">> >>]
CatMixed ==
    [CatPair EXCEPT !.nodes = [V |-> 3, W |-> 0, F |-> 2],
                    !.edges = << <<"V", 0, 0, "input">>, <<"V", 1, 0, "output">>,
                                 <<"V", 2, 1, "input">> >>,
                    !.unaries = <<>>]
CatWide ==
    [CatPair EXCEPT !.nodes = [V |-> 3, W |-> 0, F |-> 1],
                    !.edges = << <<"V", 0, 0, "input">>, <<"V", 1, 0, "output">>,
                                 <<"V", 2, 0, "output">> >>,
                    !.unaries = <<>>]
\* The chain with only the variables in the schedule.
PottsUnscheduled == [PottsChain EXCEPT !.schedule = <<"V">>]
FinalScripts ==
    {PottsChain, PottsStar, PottsMixed, PottsShort, PottsWide, CatPair, CatMixed, CatWide,
     NoisyOrNet, UnaryIsolated, UnaryExample, PottsUnscheduled}

\* The number of calls made on one built graph.
MaxLayoutCalls == 3

\* The observer of a built graph: its edges, the calls made, the messages of
\* each chunk as its finalize() left them, the edge index as the graph's
\* finalize() left it, and the add_edge calls of the script in their order.
FinalInit ==
    \E sc \in FinalScripts, strat \in InitStrats :
        \E w \in {Built(sc, [iters |-> 1, damp |-> Zero, streak_lim |-> 1, tol |-> Zero],
                         strat)} :
            /\ Ok(w)
            /\ chunks = w.chunks /\ grps = w.grps /\ edge_info = w.edge_info
            /\ graph = w.graph /\ frame = w.frame /\ exc = w.exc
            /\ hist = [edges |-> ScriptEdges(sc.edges), ops |-> <<>>,
                       logical |-> MsgsIn(w.chunks), index |-> w.edge_info,
                       added |-> sc.edges]

MoreCalls == exc = "none" /\ Len(hist.ops) < MaxLayoutCalls

\* g.finalize()
FinalizeGraph(seed) ==
    /\ MoreCalls
    /\ \E w \in {BpGraph_finalize(World, seed)} :
          /\ Commit(w)
          /\ hist' = [hist EXCEPT !.ops = Append(@, <<"finalize", <<"", "">> >>),
                                  !.logical = [c \in DOMAIN @ |->
                                                  IF w.chunks[c].finalized
                                                        /\ ~chunks[c].finalized
                                                  THEN w.chunks[c].msgs_in ELSE @[c]],
                                  !.index = IF Ok(w) THEN w.edge_info ELSE @]

\* chunk.prepare_msgs_for_distribution()
ToDistribute(c) ==
    /\ MoreCalls
    /\ \E w \in {MessageChunk_prepare_msgs_for_distribution(World, c)} :
          /\ Commit(w)
          /\ hist' = [hist EXCEPT !.ops = Append(@, <<"to_distribute", c>>)]

\* chunk.prepare_msgs_for_computation()
ToCompute(c) ==
    /\ MoreCalls
    /\ \E w \in {MessageChunk_prepare_msgs_for_computation(World, c)} :
          /\ Commit(w)
          /\ hist' = [hist EXCEPT !.ops = Append(@, <<"to_compute", c>>)]

\* graph_edge_info.finalize(), called on the edge index of a finalised graph
EdgeFinalize ==
    /\ MoreCalls /\ graph.is_finalized
    /\ \E w \in {GraphEdgeInfo_finalize(World)} :
          /\ Commit(w)
          /\ hist' = [hist EXCEPT !.ops = Append(@, <<"edge_finalize", <<"", "">> >>)]

FinalNext ==
    \/ \E seed \in RunSeeds : FinalizeGraph(seed)
    \/ \E c \in DOMAIN chunks : ToDistribute(c)
    \/ \E c \in DOMAIN chunks : ToCompute(c)
    \/ EdgeFinalize

FinalSpec == FinalInit /\ [][FinalNext]_vars

\* ------------------------------------------------ properties of the layouts

\* Entry [d, s, n] of the messages of chunk ch, read in the layout they are in.
LogicalAt(ch, d, s, n) ==
    IF ch.is_rolled THEN At3(ch.msgs_in, d, s, n)
    ELSE At2(ch.msgs_in, d * ch.num_entries + n, s)

LastOp == IF hist.ops = <<>> THEN <<"build", <<"", "">> >> ELSE hist.ops[Len(hist.ops)]

\* C18: on a finalised chunk every sequence of layout switches leaves every
\* logical entry msgs[d, s, n] as finalize() left it: in compute layout the
\* array is [D, S, N], in distribute layout it is [D * N, S] and row d * N + n
\* holds msgs[d, :, n]; and a switch to the layout the chunk is in already
\* changes nothing.
C18_LayoutRoundTrip ==
    /\ [](\A c \in Finalised :
            LET ch == chunks[c]
                D == ch.max_degree
                N == ch.num_entries
                S == ch.num_states
            IN  /\ ch.msgs_in.shape = IF ch.is_rolled THEN <<D, S, N>> ELSE <<D * N, S>>
                /\ \A d \in 0 .. D - 1, s \in 0 .. S - 1, n \in 0 .. N - 1 :
                      LogicalAt(ch, d, s, n) = At3(hist.logical[c], d, s, n))
    /\ [][\A c \in Finalised :
            /\ ToDistribute(c) => exc' = "none" /\ ~chunks'[c].is_rolled
            /\ ToCompute(c) => exc' = "none" /\ chunks'[c].is_rolled
            /\ (ToDistribute(c) /\ ~chunks[c].is_rolled) => chunks' = chunks
            /\ (ToCompute(c) /\ chunks[c].is_rolled) => chunks' = chunks]_vars

\* A chunk of several nodes, slots and states that was switched to distribute
\* layout and straight back to compute layout.
C18_Witness ==
    /\ exc = "none" /\ Len(hist.ops) >= 3
    /\ hist.ops[Len(hist.ops) - 1][1] = "to_distribute"
    /\ LastOp = <<"to_compute", hist.ops[Len(hist.ops) - 1][2]>>
    /\ LET ch == chunks[LastOp[2]]
       IN  ch.max_degree >= 2 /\ ch.num_entries >= 2 /\ ch.num_states >= 2 /\ ch.is_rolled

\* --------------------------------------------- properties of the edge index

\* C19: a second call of GraphEdgeInfo.finalize succeeds and leaves the rows of
\* flat offsets of every chunk pair, and the list of chunk pairs of every chunk,
\* as the first call left them.
C19_EdgeFinalizeIdempotent ==
    [][EdgeFinalize =>
          /\ exc' = "none"
          /\ edge_info'.edge_hash = hist.index.edge_hash
          /\ edge_info'.to_chunks = hist.index.to_chunks]_vars

\* ------------------------------------------ properties of the degree checks

\* The number of edges of role that the client gave factor o.
FactorEdges(role, o) == Cardinality({e \in hist.edges : e.fc = <<"F", role>> /\ e.o_id = o})

\* The factors of F whose number of edges is not the one their family takes: 2
\* for a Potts factor, the first dimension of probs on the output role for a
\* categorical factor.
BadFactors ==
    CASE grps["F"].cls = "PottsNodes" ->
            {o \in 0 .. chunks[<<"F", "default">>].num_entries - 1 :
                FactorEdges("default", o) # 2}
      [] grps["F"].cls = "CatNodes" ->
            {o \in 0 .. chunks[<<"F", "output">>].num_entries - 1 :
                FactorEdges("output", o) # grps["F"].nodes_params.probs.shape[1]}
      [] OTHER -> {}

\* C20: finalize() of a graph whose schedule holds a Potts or categorical group
\* with at least one factor of a wrong number of edges fails and leaves the
\* graph unfinalised, whether or not the other factors of the group are right.
C20_FinalizeRejectsBadDegree ==
    [][\A seed \in RunSeeds :
          (FinalizeGraph(seed) /\ ~graph.is_finalized /\ "F" \in Range(graph.nodes)
                /\ BadFactors # {})
             => exc' # "none" /\ ~graph'.is_finalized]_vars

\* ------------------------------------------------- calls of the schedule

\* The number of add_nodes_to_schedule calls made on one graph.
MaxScheduleCalls == 4

\* A new graph; the observer keeps the groups passed to add_nodes_to_schedule,
\* in the order of the calls.
SchedInit ==
    /\ \E f \in FactorChoices :
          /\ grps = [g \in Groups |-> IF g = "F" THEN f
                                      ELSE NewNodes("VarNodes", <<>>, NumStates(g))]
          /\ chunks = ChunksFor(f)
    /\ edge_info = NewGraphEdgeInfo
    /\ \E bp \in BpParamsChoices : graph = NewBpGraph(bp)
    /\ frame = IdleFrame
    /\ exc = "none"
    /\ hist = [calls |-> <<>>]

\* g.add_nodes_to_schedule(nodes)
Schedule(nodes) ==
    /\ exc = "none" /\ Len(hist.calls) < MaxScheduleCalls
    /\ \E w \in {BpGraph_add_nodes_to_schedule(World, nodes)} :
          /\ Commit(w)
          /\ hist' = [hist EXCEPT !.calls = Append(@, nodes)]

SchedNext == \E nodes \in Groups : Schedule(nodes)

SchedSpec == SchedInit /\ [][SchedNext]_vars

RECURSIVE FirstAdditions(_)
\* The groups of a sequence of calls, each once, in the order of its first call.
FirstAdditions(calls) ==
    IF calls = <<>> THEN <<>>
    ELSE LET before == FirstAdditions(SubSeq(calls, 1, Len(calls) - 1))
             last == calls[Len(calls)]
         IN  IF last \in Range(before) THEN before ELSE Append(before, last)

\* C21: after any sequence of add_nodes_to_schedule calls the schedule holds
\* each group passed exactly once, in the order of the first call that passed
\* it; a call with a group the schedule holds changes nothing.
C21_ScheduleIdempotent ==
    /\ [](/\ graph.nodes = FirstAdditions(hist.calls)
          /\ \A i, j \in 1 .. Len(graph.nodes) : graph.nodes[i] = graph.nodes[j] => i = j)
    /\ [][\A nodes \in Groups :
            (Schedule(nodes) /\ nodes \in Range(graph.nodes)) => graph' = graph]_vars

\* A schedule of two groups to which the first one was added again.
C21_Witness ==
    /\ Len(hist.calls) = 3 /\ Len(graph.nodes) = 2
    /\ hist.calls[3] = graph.nodes[1]

\* ---------------------------------------------------- calls of create_nodes

\* The number of nodes given to one group.
MaxGroupNodes == 4

\* A new graph; the observer keeps, for every group, the ids its create_nodes
\* calls returned, in the order they were returned, and the last call.
CreateInit ==
    /\ \E f \in FactorChoices \cup {NewNoisyOrNodes(<<1, 10>>, <<1, 2>>, "sum")} :
          /\ grps = [g \in Groups |-> IF g = "F" THEN f
                                      ELSE NewNodes("VarNodes", <<>>, NumStates(g))]
          /\ chunks = ChunksFor(f)
    /\ edge_info = NewGraphEdgeInfo
    /\ \E bp \in BpParamsChoices : graph = NewBpGraph(bp)
    /\ frame = IdleFrame
    /\ exc = "none"
    /\ hist = [ids |-> [g \in Groups |-> <<>>],
               last |-> [g |-> "", k |-> 0, count |-> 0, returned |-> <<>>]]

\* nodes.create_nodes(k)
Create(g, k) ==
    /\ exc = "none" /\ Len(hist.ids[g]) + k <= MaxGroupNodes
    /\ \E w \in {Nodes_create_nodes(World, g, k)} :
          /\ Commit(w)
          /\ hist' = [ids |-> [hist.ids EXCEPT ![g] = @ \o Nodes_create_nodes_ids(World, g, k)],
                      last |-> [g |-> g, k |-> k, count |-> Len(hist.ids[g]),
                                returned |-> Nodes_create_nodes_ids(World, g, k)]]

CreateNext == \E g \in Groups, k \in 0 .. 2 : Create(g, k)

CreateSpec == CreateInit /\ [][CreateNext]_vars

\* C22: over any sequence of create_nodes calls on a group, the call with
\* argument k returns the k ids N, N + 1, .., N + k - 1, N the number of nodes
\* of the group before the call; the ids returned so far are 0, 1, .., N - 1
\* in this order; and every chunk of the group counts N nodes.
C22_CreateNodesDense ==
    /\ \A g \in Groups :
          /\ hist.ids[g] = [i \in 1 .. Len(hist.ids[g]) |-> i - 1]
          /\ \A c \in Range(ChunksOf(World, g)) : chunks[c].num_entries = Len(hist.ids[g])
    /\ hist.last.returned = [i \in 1 .. hist.last.k |-> hist.last.count + i - 1]
    /\ exc = "none"

\* A group of several chunks that got nodes in two calls, the degree buffer
\* grown beyond its initial size.
C22_Witness ==
    /\ hist.last.g = "F" /\ hist.last.k = 2 /\ hist.last.count = 1
    /\ Len(ChunksOf(World, "F")) = 2
    /\ FnLen(chunks[ChunksOf(World, "F")[2]].degree) > NodeBuffSz

\* ------------------------------------------- properties of the edge tables

\* The add_edge calls between the chunks of key, in the order they were made:
\* their positions in hist.added.
CallsOf(key) ==
    SelectSeq([k \in 1 .. Len(hist.added) |-> k],
              LAMBDA k : hist.added[k][1] = key[1] /\ hist.added[k][4] = key[3])

\* The number of earlier calls that gave an edge to the same variable node /
\* to the same factor node on the same role: the slot of call k at that node.
VarSlot(k) == Cardinality({j \in 1 .. k - 1 : hist.added[j][1] = hist.added[k][1]
                                              /\ hist.added[j][2] = hist.added[k][2]})
FactorSlot(k) == Cardinality({j \in 1 .. k - 1 : hist.added[j][4] = hist.added[k][4]
                                                 /\ hist.added[j][3] = hist.added[k][3]})

\* C23: in a finalised graph the table of each chunk pair has one row per
\* add_edge call between the two chunks, in the order of the calls, the row of
\* a call being (slotA * N_A + idA, slotB * N_B + idB); the offsets of one chunk
\* are pairwise distinct over all its edges and below max_degree * N.
C23_EdgeTables ==
    graph.is_finalized =>
       /\ \A key \in DOMAIN edge_info.edge_hash :
             LET calls == CallsOf(key)
                 NA == chunks[Chunk0(key)].num_entries
                 NB == chunks[Chunk1(key)].num_entries
             IN  edge_info.edge_hash[key] =
                    [i \in 0 .. Len(calls) - 1 |->
                        <<VarSlot(calls[i + 1]) * NA + hist.added[calls[i + 1]][2],
                          FactorSlot(calls[i + 1]) * NB + hist.added[calls[i + 1]][3]>>]
       /\ \A k \in 1 .. Len(hist.added) :
             <<hist.added[k][1], "F", hist.added[k][4]>> \in DOMAIN edge_info.edge_hash
       /\ \A key \in DOMAIN edge_info.edge_hash : \A col \in 1 .. 2 :
             LET c == IF col = 1 THEN Chunk0(key) ELSE Chunk1(key)
                 rows == edge_info.edge_hash[key]
             IN  /\ \A i \in DOMAIN rows :
                       rows[i][col] >= 0
                       /\ rows[i][col] < chunks[c].max_degree * chunks[c].num_entries
                 /\ \A key2 \in DOMAIN edge_info.edge_hash :
                       \A i \in DOMAIN rows, j \in DOMAIN edge_info.edge_hash[key2] :
                          (IF col = 1 THEN Chunk0(key2) ELSE Chunk1(key2)) = c
                             /\ edge_info.edge_hash[key2][j][col] = rows[i][col]
                          => key2 = key /\ i = j

\* A finalised graph with a table of more rows than the initial buffer.
C23_Witness ==
    /\ graph.is_finalized /\ exc = "none"
    /\ \E key \in DOMAIN edge_info.edge_hash : FnLen(edge_info.edge_hash[key]) > NodeEdgeBuff

\* ------------------------------------------- properties of the deliveries

\* The chunk that delivers in the current distribute step, and its messages.
Sender == <<graph.nodes[frame.pos], Head(frame.keys)>>
SentNow == frame.msgs_hash[Head(frame.keys)]

\* The edges between chunk X and chunk Y, and for one of them its endpoint on
\* the side of chunk c as <<slot, node>>.
EdgesBetween(X, Y) == {e \in hist.edges : {e.vc, e.fc} = {X, Y}}
EndOn(e, c) == IF e.vc = c THEN <<e.c_loc, e.c_id>> ELSE <<e.o_loc, e.o_id>>

\* C24: in a distribute step of chunk X that completes, for every edge between node x of X and
\* node y of a chunk Y the slot of the edge at y receives the message X computed
\* for the slot of the edge at x (weighted by damp against the old value), in
\* both directions; a slot of Y is the end of at most one edge from X; and
\* every (slot, node) of every chunk that is not the other end of an edge of X
\* keeps its messages.
C24_AlongEdgesOnly ==
    [][(frame.pc = "distribute" /\ exc = "none" /\ exc' = "none") =>
        \A Y \in DOMAIN chunks :
            /\ \A e \in EdgesBetween(Sender, Y) : \A s \in 0 .. chunks[Y].num_states - 1 :
                  At3(chunks'[Y].msgs_in, EndOn(e, Y)[1], s, EndOn(e, Y)[2])
                     = Damped(At3(chunks[Y].msgs_in, EndOn(e, Y)[1], s, EndOn(e, Y)[2]),
                              At3(SentNow, EndOn(e, Sender)[1], s, EndOn(e, Sender)[2]))
            /\ \A e1, e2 \in EdgesBetween(Sender, Y) : EndOn(e1, Y) = EndOn(e2, Y) => e1 = e2
            /\ chunks[Y].finalized =>
                  \A d \in 0 .. chunks[Y].max_degree - 1, n \in 0 .. chunks[Y].num_entries - 1 :
                     (\A e \in EdgesBetween(Sender, Y) : EndOn(e, Y) # <<d, n>>) =>
                        \A s \in 0 .. chunks[Y].num_states - 1 :
                           At3(chunks'[Y].msgs_in, d, s, n) = At3(chunks[Y].msgs_in, d, s, n)]_vars

\* A noisy-or graph in which the variables have delivered to the factors and
\* the factors, on both their roles, to the variables.
C24_Witness ==
    /\ exc = "none" /\ grps["F"].cls = "NoisyOrNodes"
    /\ {<<"V", "vars">>, <<"F", "input">>, <<"F", "output">>} \subseteq hist.delivered
    /\ chunks # [c \in DOMAIN chunks |-> [chunks[c] EXCEPT !.msgs_in = hist.iter_start[c]]]

\* ------------------------------------------ properties of the layout flag

\* The shape the messages of chunk ch have in the layout its flag names.
FlaggedShape(ch) ==
    IF ch.is_rolled THEN <<ch.max_degree, ch.num_states, ch.num_entries>>
    ELSE <<ch.max_degree * ch.num_entries, ch.num_states>>

\* C25: the messages of every finalised chunk have the shape of the layout the
\* flag names; when the loop of do_message_passing is about to call
\* compute_messages, and when no call is running (before the first call and
\* after each return, by convergence or by the iteration cap), every finalised
\* chunk is in compute layout.
C25_ComputeLayout ==
    /\ \A c \in Finalised : chunks[c].msgs_in.shape = FlaggedShape(chunks[c])
    /\ (exc = "none" /\ frame.pc \in {"compute", "idle"}) =>
          \A c \in Finalised : chunks[c].is_rolled

\* A second iteration is about to compute, after deliveries that changed the
\* messages.
C25_Witness ==
    /\ exc = "none" /\ frame.pc = "compute" /\ hist.iters_done >= 1
    /\ \E c \in Finalised : chunks[c].msgs_in # hist.iter_start[c] /\ chunks[c].max_degree >= 2

\* --------------------------------------- properties of the finalised graph

\* C26: in a graph that finalize() has finalised, the two chunks of every edge
\* are finalised, whether or not their groups are in the schedule.
C26_EdgeChunksFinalised ==
    graph.is_finalized =>
        \A e \in hist.edges : chunks[e.vc].finalized /\ chunks[e.fc].finalized

\* --------------------------------- properties of the unaries after finalize

\* exp of what __include_unary adds for node n at state s: 1 when it adds
\* nothing.
EnteringUnary(np, N, n, s) ==
    Exp(At3(VarNodes_include_unary(np, Arr(<<1, NumStates("V"), N>>, LAMBDA i : Ln(One))),
            0, s, n))

\* C27: after finalize() the unary __include_unary adds for node n of V is the
\* merged unary the add_unaries calls stored for node n, nothing for a node
\* without one; unary_idx is dropped exactly when every node 0 .. N - 1 has a
\* stored unary.
C27_UnaryByNode ==
    LET N == chunks[<<"V", "vars">>].num_entries
        after == grps["V"].nodes_params
    IN  /\ \A n \in 0 .. N - 1, s \in 0 .. NumStates("V") - 1 :
               EnteringUnary(after, N, n, s) = UnaryAt(hist.stored, n, s)
        /\ "unary_idx" \in DOMAIN hist.stored =>
               ("unary_idx" \notin DOMAIN after
                    <=> \A n \in 0 .. N - 1 : n \in Range(hist.stored["unary_idx"]))

\* ------------------------------------- factor messages on drawn inputs

\* One factor between two nodes of group g, the factors computed first.
PottsOn(g, bp_algo) ==
    [f |-> NewPottsNodes(PottsAlpha, bp_algo),
     nodes |-> [x \in Groups |-> IF x = g THEN 2 ELSE IF x = "F" THEN 1 ELSE 0],
     edges |-> << <<g, 0, 0, "default">>, <<g, 1, 0, "default">> >>,
     unaries |-> <<>>, schedule |-> <<"F", g>>]

\* probs of a categorical factor with two outputs, and one such factor with
\* its input and its two outputs.
CatProbsTwo == << << <<1, 2>>, <<1, 2>> >>, << <<1, 4>>, <<3, 4>> >> >>
CatTwo(bp_algo) ==
    [f |-> NewCatNodes(CatProbsTwo, bp_algo), nodes |-> [V |-> 3, W |-> 0, F |-> 1],
     edges |-> << <<"V", 0, 0, "input">>, <<"V", 1, 0, "output">>,
                  <<"V", 2, 0, "output">> >>,
     unaries |-> <<>>, schedule |-> <<"F", "V">>]
FactorScripts ==
    {PottsOn(g, a) : g \in VarGroups, a \in {"sum", "max"}}
        \cup {CatTwo(a) : a \in {"sum", "max"}}

\* The vectors an incoming message is drawn from: over two states, the last
\* one not normalised; over three states, with a tie for the maximum and a
\* tie below the maximum.
Vectors(S) ==
    IF S = 2 THEN {<< <<1, 2>>, <<1, 2>> >>, << <<3, 4>>, <<1, 4>> >>,
                   << <<1, 3>>, <<2, 3>> >>, << <<2, 5>>, <<1, 2>> >>}
    ELSE {<< <<1, 3>>, <<1, 3>>, <<1, 3>> >>, << <<1, 2>>, <<1, 4>>, <<1, 4>> >>,
          << <<2, 5>>, <<2, 5>>, <<1, 5>> >>, << <<1, 5>>, <<3, 10>>, <<1, 2>> >>}

\* A finalised graph of one factor whose incoming messages are drawn from
\* Vectors, one vector per slot.
FactorInit ==
    \E sc \in FactorScripts :
        \E w \in {BuildWith(sc, [iters |-> 1, damp |-> Zero, streak_lim |-> 1, tol |-> Zero],
                             0, "random")} :
            /\ Ok(w)
            /\ \E drawn \in [{c \in DOMAIN w.chunks : c[1] = "F"} ->
                                [0 .. 1 -> UNION {Vectors(S) : S \in 2 .. 3}]] :
                  /\ \A c \in DOMAIN drawn : \A d \in 0 .. 1 :
                        /\ Len(drawn[c][d]) = w.chunks[c].num_states
                        /\ d >= w.chunks[c].max_degree => drawn[c][d] = drawn[c][0]
                  /\ chunks = [c \in DOMAIN w.chunks |->
                                  IF c[1] = "F"
                                  THEN [w.chunks[c] EXCEPT !.msgs_in =
                                          Arr3(@.shape, LAMBDA d, s, n : drawn[c][d][s + 1])]
                                  ELSE w.chunks[c]]
            /\ grps = w.grps /\ edge_info = w.edge_info
            /\ graph = w.graph /\ frame = w.frame /\ exc = w.exc
            /\ hist = [edges |-> ScriptEdges(sc.edges), runs |-> 0, entry_streak |-> 0,
                       iters_done |-> 0, iter_start |-> MsgsIn(chunks), sent |-> <<>>,
                       delivered |-> {}, computed |-> <<>>, bel_prev |-> <<>>,
                       last_diff |-> Zero, within_tol |-> 0, hits |-> 0, resets |-> 0]

FactorSpec == FactorInit /\ [][RunNext]_vars

\* ------------------------------------ properties of the factor messages

\* f over the indices 0 .. n - 1 other than d, renumbered 0 .. n - 2.
Others(f, n, d) == [k \in 0 .. n - 2 |-> f[IF k < d THEN k ELSE k + 1]]

\* For the categorical factors of F: the on/off ratio of the incoming message
\* on output slot d, the on-state message to slot d, and the off-state message
\* to slot d as the reduction over the other slots.
CatRatio(d, n) ==
    RDiv(At3(chunks[<<"F", "output">>].msgs_in, d, 1, n),
         At3(chunks[<<"F", "output">>].msgs_in, d, 0, n))
CatOn(d, n) ==
    LET probs == grps["F"].nodes_params.probs
    IN  max_or_sum(grps["F"].nodes_params.bp_algo,
                   [s \in 0 .. probs.shape[2] - 1 |->
                       RMul(At3(probs, d, s, 0),
                            At3(chunks[<<"F", "input">>].msgs_in, 0, s, n))],
                   probs.shape[2])
CatOff(d, n) ==
    LET Do == chunks[<<"F", "output">>].max_degree
    IN  max_or_sum(grps["F"].nodes_params.bp_algo,
                   Others([k \in 0 .. Do - 1 |-> RMul(CatRatio(k, n), CatOn(k, n))], Do, d),
                   Do - 1)

\* C28: the message a categorical factor with two or more output slots
\* computes for output slot d is the normalised pair (off, on) with
\* on = m_on[d, n] and off the sum (sum-product) or the maximum (max-product)
\* over the other slots dd of r[dd, n] * m_on[dd, n].
C28_CatOffLeaveOneOut ==
    [][(frame.pc = "compute" /\ exc = "none" /\ exc' = "none"
            /\ graph.nodes[frame.pos] = "F" /\ grps["F"].cls = "CatNodes"
            /\ chunks[<<"F", "output">>].max_degree >= 2) =>
        LET out == CatNodes_do_compute_messages(World, "F").msgs_hash.output
        IN  /\ frame'.msgs_hash.output = MessageChunk_clamp_messages(out)
            /\ \A d \in 0 .. out.shape[1] - 1, n \in 0 .. out.shape[3] - 1 :
                  /\ RAdd(At3(out, d, 0, n), At3(out, d, 1, n)) = One
                  /\ RMul(At3(out, d, 0, n), CatOn(d, n))
                        = RMul(At3(out, d, 1, n), CatOff(d, n))]_vars

\* The pairwise factor of the module docstring of potts_nodes:
\* F(X, Y) = alpha if X == Y, 1 otherwise.
PottsF(x, y) == IF x = y THEN grps["F"].nodes_params.alpha ELSE One

\* C29: the message a Potts factor computes for the endpoint on slot d is,
\* over the states s and up to normalisation, the sum (sum-product) or the
\* maximum (max-product) over the states ss of F(s, ss) * r[ss], r the incoming
\* message of the other endpoint.
C29_PottsMessage ==
    [][(frame.pc = "compute" /\ exc = "none" /\ exc' = "none"
            /\ graph.nodes[frame.pos] = "F" /\ grps["F"].cls = "PottsNodes") =>
        LET msgs == chunks[<<"F", "default">>].msgs_in
            S == msgs.shape[2]
            out == PottsNodes_do_compute_messages(World, "F").msgs_hash.default
            T(d, s, n) == max_or_sum(grps["F"].nodes_params.bp_algo,
                                     [ss \in 0 .. S - 1 |->
                                         RMul(PottsF(s, ss), At3(msgs, 1 - d, ss, n))], S)
        IN  /\ frame'.msgs_hash.default = MessageChunk_clamp_messages(out)
            /\ \A d \in 0 .. 1, n \in 0 .. msgs.shape[3] - 1 : \A s1, s2 \in 0 .. S - 1 :
                  RMul(At3(out, d, s1, n), T(d, s2, n))
                     = RMul(At3(out, d, s2, n), T(d, s1, n))]_vars

\* ---------------------------------------- properties of the initial messages

\* C30: a chunk whose msgs_init_strat is uniform has, as finalize() leaves it,
\* 1 / S in every entry of every slot d < degree[n], S its number of states.
C30_UniformInit ==
    (frame.pc = "idle" /\ hist.runs = 0) =>
        \A c \in Finalised :
            chunks[c].msgs_init_strat = "uniform" =>
                \A n \in 0 .. chunks[c].num_entries - 1 :
                    \A d \in 0 .. chunks[c].degree[n] - 1, s \in 0 .. chunks[c].num_states - 1 :
                        At3(chunks[c].msgs_in, d, s, n) = <<1, chunks[c].num_states>>
====
